---- MODULE Spec2Model ----
(***************************************************************************)
(* A model of the jsonmp typed parameter registry: Param<T> with its       *)
(* constraints (param.h, constraints.h), the registry ParamSet with its    *)
(* typed accessors (param_set.h) and its two codecs, the compact           *)
(* "name=value;..." string and the JSON document (param_set.cpp).          *)
(*                                                                         *)
(* A std::string is a sequence of one-character strings.  An int is an     *)
(* integer, a bool a BOOLEAN, a double a decimal number [m, e] standing    *)
(* for m * 10^e (m not divisible by 10, or m = e = 0): every decimal text  *)
(* has such a value, and the conversions below act on it as the stream     *)
(* operators act on a double with up to 15 significant digits.             *)
(***************************************************************************)
EXTENDS Integers, Sequences, FiniteSets, TLC

VARIABLES
    params,   \* ParamSet::params: name -> parameter (type, value, default, constraints)
    call      \* history: the call under observation, with the registry it started from

vars == <<params, call>>

(***************************************************************************)
(* Characters and text.                                                    *)
(***************************************************************************)

\* The characters the model's texts use, in ascending byte order.
Ascii ==
    << " ", "\"", "+", ",", "-", ".", "0", "1", "2", "3", "4", "5", "6", "7", "8", "9",
       ":", ";", "=", "T", "[", "\\", "]", "a", "b", "e", "f", "l", "m", "n", "r", "s", "t",
       "u", "x", "y", "z", "{", "}" >>

\* The rank of a character in byte order (std::string compares bytes).
Code(c) == CHOOSE i \in 1..Len(Ascii) : Ascii[i] = c

\* std::string operator<, as std::sort uses it on the collected names.
RECURSIVE StrLess(_, _)
StrLess(s, t) ==
    IF t = <<>> THEN FALSE
    ELSE IF s = <<>> THEN TRUE
    ELSE IF Head(s) # Head(t) THEN Code(Head(s)) < Code(Head(t))
    ELSE StrLess(Tail(s), Tail(t))

Digits == << "0", "1", "2", "3", "4", "5", "6", "7", "8", "9" >>

IsDigit(c) == \E d \in 1..Len(Digits) : Digits[d] = c

DigitVal(c) == (CHOOSE d \in 1..Len(Digits) : Digits[d] = c) - 1

\* std::isspace for the characters of the model.
IsSpace(c) == c = " "

RECURSIVE Pow10(_)
Pow10(k) == IF k <= 0 THEN 1 ELSE 10 * Pow10(k - 1)

\* The decimal digits of a natural number, most significant first.
RECURSIVE NatText(_)
NatText(n) ==
    IF n < 10 THEN << Digits[n + 1] >>
    ELSE Append(NatText(n \div 10), Digits[(n % 10) + 1])

\* The value of a sequence of digits.
RECURSIVE DigitsVal(_)
DigitsVal(ds) ==
    IF ds = <<>> THEN 0
    ELSE 10 * DigitsVal(SubSeq(ds, 1, Len(ds) - 1)) + DigitVal(ds[Len(ds)])

\* The number of leading characters of s that are digits.
RECURSIVE LeadDigits(_)
LeadDigits(s) ==
    IF s = <<>> \/ ~IsDigit(Head(s)) THEN 0 ELSE 1 + LeadDigits(Tail(s))

\* s without its leading whitespace (the stream's skipws).
RECURSIVE SkipWs(_)
SkipWs(s) == IF s # <<>> /\ IsSpace(Head(s)) THEN SkipWs(Tail(s)) ELSE s

Drop(s, n) == SubSeq(s, n + 1, Len(s))

Take(s, n) == SubSeq(s, 1, n)

(***************************************************************************)
(* Stream conversions of Param<T>::to_string and Param<T>::from_string.    *)
(* A conversion is written as a chain of operators, each taking what the   *)
(* step before it has read.                                                *)
(***************************************************************************)

IntMax == 2147483647

IntMin == -IntMax - 1

\* oss << value for an int.
IntText(i) == IF i < 0 THEN << "-" >> \o NatText(-i) ELSE NatText(i)

\* The n leading digits of u as a number, negated after a '-': [ok, v].
ReadDigits(u, n, neg) ==
    IF n = 0 THEN [ok |-> FALSE, v |-> 0]
    ELSE [ok |-> TRUE, v |-> IF neg THEN -DigitsVal(Take(u, n)) ELSE DigitsVal(Take(u, n))]

\* The sign and the digits at the start of t.
ReadSigned(t) ==
    IF t # <<>> /\ Head(t) \in {"+", "-"}
    THEN ReadDigits(Tail(t), LeadDigits(Tail(t)), Head(t) = "-")
    ELSE ReadDigits(t, LeadDigits(t), FALSE)

\* The integer field iss >> parsed reads: whitespace, a sign, digits.  The
\* extraction stops at the first character that is no digit and leaves the
\* rest of the text unread.
ReadInteger(repr) == ReadSigned(SkipWs(repr))

\* The field read fits an int.
InIntRange(r) ==
    IF ~r.ok \/ r.v > IntMax \/ r.v < IntMin THEN [ok |-> FALSE, v |-> 0] ELSE r

\* iss >> parsed for an int: fails on no digits and on overflow.
ParseInt(repr) == InIntRange(ReadInteger(repr))

\* oss << value for a bool (no boolalpha).
BoolText(b) == IF b THEN << "1" >> ELSE << "0" >>

\* The field read is 0 or 1.
AsBool(r) ==
    IF r.ok /\ r.v \in {0, 1} THEN [ok |-> TRUE, v |-> r.v = 1]
    ELSE [ok |-> FALSE, v |-> FALSE]

\* iss >> parsed for a bool (no boolalpha): an integer field that is 0 or 1.
ParseBool(repr) == AsBool(ReadInteger(repr))

\* The field read as an unsigned int: a negative field is negated modulo
\* 2^32, as strtoul does (2^32 is written IntMax + IntMax + 2).
AsUnsigned(r) ==
    IF ~r.ok THEN [ok |-> FALSE, v |-> 0]
    ELSE IF r.v < 0 THEN [ok |-> TRUE, v |-> (IntMax + r.v) + IntMax + 2]
    ELSE r

\* iss >> parsed for an unsigned int.
ParseUnsigned(repr) == AsUnsigned(ReadInteger(repr))

(***************************************************************************)
(* double: the decimal number m * 10^e.                                    *)
(***************************************************************************)

\* The canonical record of m * 10^e.
RECURSIVE DNorm(_, _)
DNorm(m, e) ==
    IF m = 0 THEN [m |-> 0, e |-> 0]
    ELSE IF m % 10 = 0 THEN DNorm(m \div 10, e + 1)
    ELSE [m |-> m, e |-> e]

DZero == [m |-> 0, e |-> 0]

Min(a, b) == IF a < b THEN a ELSE b

\* operator< of two doubles.
DLess(x, y) ==
    x.m * Pow10(x.e - Min(x.e, y.e)) < y.m * Pow10(y.e - Min(x.e, y.e))

Abs(i) == IF i < 0 THEN -i ELSE i

\* The precision of a stream that was given none.
StreamPrecision == 6

\* ds without its trailing zeros (at least one digit is kept).
RECURSIVE StripZeros(_)
StripZeros(ds) ==
    IF Len(ds) > 1 /\ ds[Len(ds)] = "0" THEN StripZeros(Take(ds, Len(ds) - 1)) ELSE ds

Zeros(n) == [i \in 1..n |-> "0"]

\* An exponent as the stream and the JSON library write it: a sign and at
\* least two digits.
ExpText(x) ==
    << "e", IF x < 0 THEN "-" ELSE "+" >>
        \o (IF Abs(x) < 10 THEN << "0" >> ELSE <<>>) \o NatText(Abs(x))

\* The digits ds (d1 d2 ...) with decimal exponent x of d1, in scientific form.
SciText(ds, x) ==
    << ds[1] >> \o (IF Len(ds) > 1 THEN << "." >> \o Drop(ds, 1) ELSE <<>>) \o ExpText(x)

\* The digits ds with decimal exponent x of d1, in fixed form (no exponent).
FixText(ds, x) ==
    IF x < 0 THEN << "0", "." >> \o Zeros(-x - 1) \o ds
    ELSE IF Len(ds) <= x + 1 THEN ds \o Zeros(x + 1 - Len(ds))
    ELSE Take(ds, x + 1) \o << "." >> \o Drop(ds, x + 1)

\* %g: the scientific form when the exponent x is below -4 or not below the
\* precision, else the fixed form.
GForm(ds, x) ==
    IF x < -4 \/ x >= StreamPrecision THEN SciText(ds, x) ELSE FixText(ds, x)

\* The digits of the rounded mantissa rq, whose last digit has exponent e.
GDigits(digits, e) == GForm(StripZeros(digits), (Len(digits) - 1) + e)

\* mag in units of unit, rounded to nearest, a tie to even.
RoundHalfEven(mag, unit) ==
    IF 2 * (mag % unit) > unit \/ (2 * (mag % unit) = unit /\ (mag \div unit) % 2 = 1)
    THEN (mag \div unit) + 1
    ELSE mag \div unit

\* mag * 10^e with the cut digits beyond the precision rounded away.
GRound(mag, e, cut) ==
    IF cut <= 0 THEN GDigits(NatText(mag), e)
    ELSE GDigits(NatText(RoundHalfEven(mag, Pow10(cut))), e + cut)

\* oss << value for a double: printf's %g with six significant digits.
DoubleText(d) ==
    IF d.m = 0 THEN << "0" >>
    ELSE (IF d.m < 0 THEN << "-" >> ELSE <<>>)
            \o GRound(Abs(d.m), d.e, Len(NatText(Abs(d.m))) - StreamPrecision)

\* The value of the field: the digits ip.fp times ten to the ex.
RdValue(ip, fp, ex, neg) ==
    [ok |-> TRUE,
     v  |-> DNorm(IF neg THEN -DigitsVal(ip \o fp) ELSE DigitsVal(ip \o fp), ex - Len(fp))]

\* The digits of the exponent; none makes the conversion of the field fail.
RdExp(ip, fp, u, eneg, neg) ==
    IF LeadDigits(u) = 0 THEN [ok |-> FALSE, v |-> DZero]
    ELSE RdValue(ip, fp,
                 IF eneg THEN -DigitsVal(Take(u, LeadDigits(u)))
                 ELSE DigitsVal(Take(u, LeadDigits(u))),
                 neg)

\* After the digits: an exponent mark and its sign, or the end of the field.
RdMark(ip, fp, u, neg) ==
    IF ip \o fp = <<>> THEN [ok |-> FALSE, v |-> DZero]
    ELSE IF u = <<>> \/ Head(u) # "e" THEN RdValue(ip, fp, 0, neg)
    ELSE IF Tail(u) # <<>> /\ Head(Tail(u)) \in {"+", "-"}
    THEN RdExp(ip, fp, Tail(Tail(u)), Head(Tail(u)) = "-", neg)
    ELSE RdExp(ip, fp, Tail(u), FALSE, neg)

\* After the integer digits ip: a point and the fraction digits.
RdPoint(ip, u, neg) ==
    IF u # <<>> /\ Head(u) = "."
    THEN RdMark(ip, Take(Tail(u), LeadDigits(Tail(u))),
                Drop(Tail(u), LeadDigits(Tail(u))), neg)
    ELSE RdMark(ip, <<>>, u, neg)

\* After the sign: the integer digits.
RdInt(u, neg) == RdPoint(Take(u, LeadDigits(u)), Drop(u, LeadDigits(u)), neg)

\* After the whitespace: the sign.
RdSign(t) ==
    IF t # <<>> /\ Head(t) \in {"+", "-"} THEN RdInt(Tail(t), Head(t) = "-")
    ELSE RdInt(t, FALSE)

\* The floating-point field the text starts with: whitespace, a sign, digits
\* with at most one point, an exponent.  An exponent mark with no digit after
\* it makes the conversion of the field fail.  The text after the field is
\* left unread.
ReadDouble(repr) == RdSign(SkipWs(repr))

\* iss >> parsed for a double.
ParseDouble(repr) == ReadDouble(repr)

(***************************************************************************)
(* ValueType, Constraints<T> and validate_constraints<T>.                  *)
(***************************************************************************)

ValueType == {"Integer", "UnsignedInteger", "FloatingPoint", "Boolean", "String"}

\* The error texts, by what they report; NoError is the empty string.
NoError == ""

ErrBelowMin == "is below minimum"

ErrAboveMax == "is above maximum"

ErrLenBelowMin == "String length is below minimum"

ErrLenAboveMax == "String length is above maximum"

ErrNotAllowed == "is not in allowed set"

ErrParse == "Failed to parse value from string"

ErrDuplicate == "Parameter already exists"
ErrUnknown == "Unknown parameter"

ErrTypeMismatch == "Type mismatch for parameter"

ErrMissingEq == "Invalid token in compact string (missing '=')"

ErrTrailingBackslash == "trailing backslash"

ErrNotObject == "Expected JSON object"

ErrJsonType == "Invalid JSON type"

\* Constraints<int>{} and Constraints<double>{}: nothing active.
NoIntConstraints == [has_min |-> FALSE, min |-> 0, has_max |-> FALSE, max |-> 0]

NoDoubleConstraints == [has_min |-> FALSE, min |-> DZero, has_max |-> FALSE, max |-> DZero]

\* Constraints<std::string>{}.
NoStringConstraints ==
    [has_min_length |-> FALSE, min_length |-> 0,
     has_max_length |-> FALSE, max_length |-> 0,
     has_allowed |-> FALSE, allowed_values |-> <<>>]

\* Constraints<bool>{}: no member.
NoBoolConstraints == <<>>

\* Constraints<unsigned int>{}: the primary template, no member.
NoUnsignedConstraints == <<>>

\* A validate_constraints<int> that compares with min and max whatever the
\* flags say.
validate_constraints_int_unflagged(constraints, value) ==
    IF value < constraints.min THEN ErrBelowMin
    ELSE IF value > constraints.max THEN ErrAboveMax
    ELSE NoError

\* validate_constraints<int>: the error it leaves (NoError when it accepts).
validate_constraints_int(constraints, value) ==
    IF constraints.has_min /\ value < constraints.min THEN ErrBelowMin
    ELSE IF constraints.has_max /\ value > constraints.max THEN ErrAboveMax
    ELSE NoError

\* validate_constraints<double>.
validate_constraints_double(constraints, value) ==
    IF constraints.has_min /\ DLess(value, constraints.min) THEN ErrBelowMin
    ELSE IF constraints.has_max /\ DLess(constraints.max, value) THEN ErrAboveMax
    ELSE NoError

\* A validation of texts that looks at the whitelist before the lengths.
validate_constraints_string_listfirst(constraints, value) ==
    IF constraints.has_allowed
            /\ ~\E i \in 1..Len(constraints.allowed_values) :
                    constraints.allowed_values[i] = value
    THEN ErrNotAllowed
    ELSE IF constraints.has_min_length /\ Len(value) < constraints.min_length
    THEN ErrLenBelowMin
    ELSE IF constraints.has_max_length /\ Len(value) > constraints.max_length
    THEN ErrLenAboveMax
    ELSE NoError

\* validate_constraints<std::string>.
validate_constraints_string(constraints, value) ==
    IF constraints.has_min_length /\ Len(value) < constraints.min_length
    THEN ErrLenBelowMin
    ELSE IF constraints.has_max_length /\ Len(value) > constraints.max_length
    THEN ErrLenAboveMax
    ELSE IF constraints.has_allowed
            /\ ~\E i \in 1..Len(constraints.allowed_values) :
                    constraints.allowed_values[i] = value
    THEN ErrNotAllowed
    ELSE NoError

\* validate_constraints<T>, by the type T of the parameter; the primary
\* template (bool, unsigned int) accepts every value.  Every path writes error.
validate_constraints(type, constraints, value) ==
    CASE type = "Integer"       -> validate_constraints_int(constraints, value)
      [] type = "FloatingPoint" -> validate_constraints_double(constraints, value)
      [] type = "String"        -> validate_constraints_string(constraints, value)
      [] OTHER                  -> NoError

(***************************************************************************)
(* Param<T>.  A parameter is [type, value, default_value, constraints];    *)
(* set, reset and from_string give [ret, error, param].                    *)
(***************************************************************************)

\* A constructor that value-initializes the value and keeps the default
\* apart from it.
Param_value_initialized(type, default_value, constraints) ==
    [type |-> type,
     value |-> CASE type = "Integer"       -> 0
                 [] type = "FloatingPoint" -> DZero
                 [] type = "Boolean"       -> FALSE
                 [] type = "String"        -> <<>>,
     default_value |-> default_value, constraints |-> constraints]

\* Param<T>::Param: the default is the first value; nothing is validated.
Param(type, default_value, constraints) ==
    [type |-> type, value |-> default_value, default_value |-> default_value,
     constraints |-> constraints]

\* An assignment that moves the default along with the value.
Assign_rebasing(p, new_value, e) ==
    IF e # NoError THEN [ret |-> FALSE, error |-> e, param |-> p]
    ELSE [ret |-> TRUE, error |-> NoError,
          param |-> [p EXCEPT !.value = new_value, !.default_value = new_value]]

\* Param<T>::set once validate_constraints has left the error e.
Assign(p, new_value, e) ==
    IF e # NoError THEN [ret |-> FALSE, error |-> e, param |-> p]
    ELSE [ret |-> TRUE, error |-> NoError, param |-> [p EXCEPT !.value = new_value]]

\* A set that assigns without validating.
Param_set_unvalidated(p, new_value) ==
    [ret |-> TRUE, error |-> NoError, param |-> [p EXCEPT !.value = new_value]]

\* Param<T>::set.
Param_set(p, new_value) ==
    Assign(p, new_value, validate_constraints(p.type, p.constraints, new_value))

\* A reset that puts the default back without validating it.
Param_reset_unvalidated(p) ==
    [ret |-> TRUE, error |-> NoError, param |-> [p EXCEPT !.value = p.default_value]]

\* Param<T>::reset.
Param_reset(p) == Param_set(p, p.default_value)

\* Param<T>::to_string.
Param_to_string(p) ==
    CASE p.type = "Integer"       -> IntText(p.value)
      [] p.type = "UnsignedInteger" -> NatText(p.value)
      [] p.type = "FloatingPoint" -> DoubleText(p.value)
      [] p.type = "Boolean"       -> BoolText(p.value)
      [] p.type = "String"        -> p.value

\* iss >> parsed, by the type T.
ParseValue(type, repr) ==
    CASE type = "Integer"       -> ParseInt(repr)
      [] type = "UnsignedInteger" -> ParseUnsigned(repr)
      [] type = "FloatingPoint" -> ParseDouble(repr)
      [] type = "Boolean"       -> ParseBool(repr)

\* A from_string that assigns what it parsed without validating it.
SetParsed_unvalidated(p, parsed) ==
    IF ~parsed.ok THEN [ret |-> FALSE, error |-> ErrParse, param |-> p]
    ELSE [ret |-> TRUE, error |-> NoError, param |-> [p EXCEPT !.value = parsed.v]]

\* Param<T>::from_string after iss >> parsed.
SetParsed(p, parsed) ==
    IF ~parsed.ok THEN [ret |-> FALSE, error |-> ErrParse, param |-> p]
    ELSE Param_set(p, parsed.v)

\* Param<T>::from_string; Param<std::string> takes the text as it is.
Param_from_string(p, repr) ==
    IF p.type = "String" THEN Param_set(p, repr)
    ELSE SetParsed(p, ParseValue(p.type, repr))

(***************************************************************************)
(* ParamSet: schema and typed access.  ps is the map params; the calls     *)
(* that may change it give [ret, error, params].                           *)
(***************************************************************************)

\* An add that replaces the parameter of a name that exists.
ParamSet_add_overwriting(ps, name, type, default_value, constraints) ==
    [threw  |-> FALSE,
     params |-> [n \in DOMAIN ps \cup {name} |->
                    IF n = name THEN Param(type, default_value, constraints)
                    ELSE ps[n]]]

\* ParamSet::add<T>: throws on a name that exists, else emplaces a new Param<T>.
ParamSet_add(ps, name, type, default_value, constraints) ==
    IF name \in DOMAIN ps THEN [threw |-> TRUE, params |-> ps]
    ELSE [threw  |-> FALSE,
          params |-> [n \in DOMAIN ps \cup {name} |->
                        IF n = name THEN Param(type, default_value, constraints)
                        ELSE ps[n]]]

\* The outcome of add as [ret, error, params]: ret is "did not throw", the
\* text of the exception is the error.
AddOutcome(r) ==
    [ret |-> ~r.threw, error |-> IF r.threw THEN ErrDuplicate ELSE NoError,
     params |-> r.params]

\* A store that puts every other parameter back to its default.
Stored_resetting(ps, name, r) ==
    [ret |-> r.ret, error |-> r.error,
     params |-> [n \in DOMAIN ps |->
                    IF n = name THEN r.param
                    ELSE Param(ps[n].type, ps[n].default_value, ps[n].constraints)]]

\* The outcome r of a call on the parameter name, as the outcome on the map.
Stored(ps, name, r) ==
    [ret |-> r.ret, error |-> r.error, params |-> [ps EXCEPT ![name] = r.param]]

\* A set<T> that takes an undeclared name for done.
ParamSet_set_lenient(ps, name, type, value, error) ==
    IF name \notin DOMAIN ps
    THEN [ret |-> TRUE, error |-> NoError, params |-> ps]
    ELSE IF ps[name].type # type
    THEN [ret |-> FALSE, error |-> ErrTypeMismatch, params |-> ps]
    ELSE Stored(ps, name, Param_set(ps[name], value))

\* ParamSet::set<T>; error is the caller's text on entry.
ParamSet_set(ps, name, type, value, error) ==
    IF name \notin DOMAIN ps
    THEN [ret |-> FALSE, error |-> ErrUnknown, params |-> ps]
    ELSE IF ps[name].type # type
    THEN [ret |-> FALSE, error |-> ErrTypeMismatch, params |-> ps]
    ELSE Stored(ps, name, Param_set(ps[name], value))

\* What a call that threw hands back.
NoValue == "no value"

\* ParamSet::get<T>(name) const: [threw, error, value].
ParamSet_get(ps, name, type) ==
    IF name \notin DOMAIN ps
    THEN [threw |-> TRUE, error |-> ErrUnknown, value |-> NoValue]
    ELSE IF ps[name].type # type
    THEN [threw |-> TRUE, error |-> ErrTypeMismatch, value |-> NoValue]
    ELSE [threw |-> FALSE, error |-> NoError, value |-> ps[name].value]

\* A get_or<T> that hands the fallback out for a parameter of another type.
ParamSet_get_or_forgiving(ps, name, type, fallback) ==
    IF name \notin DOMAIN ps \/ ps[name].type # type
    THEN [threw |-> FALSE, error |-> NoError, value |-> fallback]
    ELSE [threw |-> FALSE, error |-> NoError, value |-> ps[name].value]

\* ParamSet::get_or<T>(name, fallback) const: [threw, error, value].
ParamSet_get_or(ps, name, type, fallback) ==
    IF name \notin DOMAIN ps
    THEN [threw |-> FALSE, error |-> NoError, value |-> fallback]
    ELSE IF ps[name].type # type
    THEN [threw |-> TRUE, error |-> ErrTypeMismatch, value |-> NoValue]
    ELSE [threw |-> FALSE, error |-> NoError, value |-> ps[name].value]

(***************************************************************************)
(* Compact codec.                                                          *)
(***************************************************************************)

\* An escape_compact that escapes the two separators and not the backslash.
RECURSIVE escape_compact_separators(_)
escape_compact_separators(s) ==
    IF s = <<>> THEN <<>>
    ELSE (IF Head(s) \in {";", "="} THEN << "\\", Head(s) >> ELSE << Head(s) >>)
            \o escape_compact_separators(Tail(s))

\* ParamSet::escape_compact.
RECURSIVE escape_compact(_)
escape_compact(s) ==
    IF s = <<>> THEN <<>>
    ELSE (IF Head(s) \in {"\\", ";", "="} THEN << "\\", Head(s) >> ELSE << Head(s) >>)
            \o escape_compact(Tail(s))

\* The loop of ParamSet::unescape_compact from character i on.
RECURSIVE UnescapeLoop(_, _, _, _)
UnescapeLoop(s, i, out, escaping) ==
    IF i > Len(s) THEN [ok |-> ~escaping, out |-> out]
    ELSE IF escaping THEN UnescapeLoop(s, i + 1, Append(out, s[i]), FALSE)
    ELSE IF s[i] = "\\" THEN UnescapeLoop(s, i + 1, out, TRUE)
    ELSE UnescapeLoop(s, i + 1, Append(out, s[i]), FALSE)

\* An unescape_compact that hands the text back as it is.
unescape_compact_verbatim(s) == [ok |-> TRUE, out |-> s]

\* ParamSet::unescape_compact: [ok, out]; not ok is the trailing backslash.
unescape_compact(s) == UnescapeLoop(s, 1, <<>>, FALSE)

\* No std::sort: the names as the map handed them out.
UnsortedNames(names) == names

\* std::sort of the collected names: an insertion into the sorted rest.
RECURSIVE InsertSorted(_, _)
InsertSorted(name, sorted) ==
    IF sorted = <<>> THEN << name >>
    ELSE IF StrLess(name, Head(sorted)) THEN << name >> \o sorted
    ELSE << Head(sorted) >> \o InsertSorted(name, Tail(sorted))

RECURSIVE SortNames(_)
SortNames(names) ==
    IF names = <<>> THEN <<>> ELSE InsertSorted(Head(names), SortNames(Tail(names)))

\* The output loop of to_compact_string over the sorted names.
RECURSIVE CompactPairs(_, _, _)
CompactPairs(ps, names, first) ==
    IF names = <<>> THEN <<>>
    ELSE IF Head(names) \notin DOMAIN ps THEN CompactPairs(ps, Tail(names), first)
    ELSE (IF first THEN <<>> ELSE << ";" >>)
            \o Head(names) \o << "=" >> \o escape_compact(Param_to_string(ps[Head(names)]))
            \o CompactPairs(ps, Tail(names), FALSE)

\* ParamSet::to_compact_string; order is the order in which the unordered_map
\* hands out its entries.
to_compact_string(ps, order) == CompactPairs(ps, SortNames(order), TRUE)

\* A search that splits the token at its last unescaped '='.
RECURSIVE FindEq_last(_, _, _)
FindEq_last(t, i, eq_escaping) ==
    IF i > Len(t) THEN 0
    ELSE IF eq_escaping THEN FindEq_last(t, i + 1, FALSE)
    ELSE IF t[i] = "\\" THEN FindEq_last(t, i + 1, TRUE)
    ELSE IF t[i] = "=" /\ FindEq_last(t, i + 1, FALSE) = 0 THEN i
    ELSE FindEq_last(t, i + 1, FALSE)

\* flush_token: the place of the first unescaped '=' of t, 0 when there is none.
RECURSIVE FindEq(_, _, _)
FindEq(t, i, eq_escaping) ==
    IF i > Len(t) THEN 0
    ELSE IF eq_escaping THEN FindEq(t, i + 1, FALSE)
    ELSE IF t[i] = "\\" THEN FindEq(t, i + 1, TRUE)
    ELSE IF t[i] = "=" THEN i
    ELSE FindEq(t, i + 1, FALSE)

\* A flush that assigns only a parameter that still holds its default.
FlushValue_once(ps, name, value) ==
    IF ~value.ok
    THEN [ret |-> FALSE, error |-> ErrTrailingBackslash, params |-> ps]
    ELSE IF ps[name].value # ps[name].default_value
    THEN [ret |-> TRUE, error |-> NoError, params |-> ps]
    ELSE Stored(ps, name, Param_from_string(ps[name], value.out))

\* flush_token once the value is unescaped.
FlushValue(ps, name, value) ==
    IF ~value.ok
    THEN [ret |-> FALSE, error |-> ErrTrailingBackslash, params |-> ps]
    ELSE Stored(ps, name, Param_from_string(ps[name], value.out))

\* A flush_token that skips the token of an undeclared name.
FlushPair_skipping(ps, name, raw_value) ==
    IF name \notin DOMAIN ps
    THEN [ret |-> TRUE, error |-> NoError, params |-> ps]
    ELSE FlushValue(ps, name, unescape_compact(raw_value))

\* flush_token once the token is split at its '='.
FlushPair(ps, name, raw_value) ==
    IF name \notin DOMAIN ps
    THEN [ret |-> FALSE, error |-> ErrUnknown, params |-> ps]
    ELSE FlushValue(ps, name, unescape_compact(raw_value))

\* flush_token once the first unescaped '=' is looked for.
FlushAt(ps, t, eq_pos) ==
    IF eq_pos = 0
    THEN [ret |-> FALSE, error |-> ErrMissingEq, params |-> ps]
    ELSE FlushPair(ps, Take(t, eq_pos - 1), Drop(t, eq_pos))

\* A flush_token that takes an empty token for a malformed one.
flush_token_strict(ps, t, error) ==
    IF t = <<>> THEN [ret |-> FALSE, error |-> ErrMissingEq, params |-> ps]
    ELSE FlushAt(ps, t, FindEq(t, 1, FALSE))

\* The lambda flush_token of from_compact_string.
flush_token(ps, t, error) ==
    IF t = <<>> THEN [ret |-> TRUE, error |-> error, params |-> ps]
    ELSE FlushAt(ps, t, FindEq(t, 1, FALSE))

\* The character loop of from_compact_string from character i on, and the
\* flush of the last token after it; Flushed is the loop after the flush f
\* at the ';' in place i.
RECURSIVE CompactLoop(_, _, _, _, _, _)
RECURSIVE Flushed(_, _, _)
\* A loop that drops a dangling backslash and flushes the last token.
CompactLoop_forgiving(ps, s, i, token, escaping, error) ==
    IF i > Len(s) THEN flush_token(ps, token, error)
    ELSE IF escaping
    THEN CompactLoop(ps, s, i + 1, token \o << "\\", s[i] >>, FALSE, error)
    ELSE IF s[i] = "\\"
    THEN CompactLoop(ps, s, i + 1, token, TRUE, error)
    ELSE IF s[i] = ";"
    THEN Flushed(flush_token(ps, token, error), s, i)
    ELSE CompactLoop(ps, s, i + 1, Append(token, s[i]), FALSE, error)
CompactLoop(ps, s, i, token, escaping, error) ==
    IF i > Len(s)
    THEN IF escaping
         THEN [ret |-> FALSE, error |-> ErrTrailingBackslash, params |-> ps]
         ELSE flush_token(ps, token, error)
    ELSE IF escaping
    THEN CompactLoop(ps, s, i + 1, token \o << "\\", s[i] >>, FALSE, error)
    ELSE IF s[i] = "\\"
    THEN CompactLoop(ps, s, i + 1, token, TRUE, error)
    ELSE IF s[i] = ";"
    THEN Flushed(flush_token(ps, token, error), s, i)
    ELSE CompactLoop(ps, s, i + 1, Append(token, s[i]), FALSE, error)
\* A loop that notes the failure of a token and goes on with the tokens
\* after it.
Flushed_continuing(f, s, i) ==
    IF ~f.ret
    THEN [ret |-> FALSE, error |-> f.error,
          params |-> CompactLoop(f.params, s, i + 1, <<>>, FALSE, f.error).params]
    ELSE CompactLoop(f.params, s, i + 1, <<>>, FALSE, f.error)
Flushed(f, s, i) ==
    IF ~f.ret THEN f ELSE CompactLoop(f.params, s, i + 1, <<>>, FALSE, f.error)

\* The outcome r of a decode on ps, undone when it is a failure.
AllOrNothing(ps, r) ==
    IF r.ret THEN r ELSE [ret |-> FALSE, error |-> r.error, params |-> ps]

\* A transactional from_compact_string.
from_compact_string_atomic(ps, s, error) ==
    AllOrNothing(ps, CompactLoop(ps, s, 1, <<>>, FALSE, NoError))

\* ParamSet::from_compact_string: error.clear(), then the loop.
from_compact_string(ps, s, error) == CompactLoop(ps, s, 1, <<>>, FALSE, NoError)

(***************************************************************************)
(* JSON documents (nlohmann::json) and the document codec.                 *)
(***************************************************************************)

JNull == [t |-> "null"]

JBool(b) == [t |-> "boolean", v |-> b]

JInt(i) == [t |-> "number_integer", v |-> i]

JUnsigned(u) == [t |-> "number_unsigned", v |-> u]

JFloat(d) == [t |-> "number_float", v |-> d]

JString(s) == [t |-> "string", v |-> s]

JArray(elems) == [t |-> "array", v |-> elems]

\* An object holds its members in a std::map: a function of the keys.
JObject(members) == [t |-> "object", v |-> members]

\* A map that hands out its keys from the greatest to the least.
RECURSIVE MapOrder_descending(_)
MapOrder_descending(keys) ==
    IF keys = {} THEN <<>>
    ELSE LET k == CHOOSE k \in keys : \A o \in keys \ {k} : StrLess(o, k)
         IN  << k >> \o MapOrder_descending(keys \ {k})

\* The order in which a std::map of names hands out its keys: ascending.
RECURSIVE MapOrder(_)
RECURSIVE MapOrderFrom(_, _)
MapOrder(keys) ==
    IF keys = {} THEN <<>>
    ELSE MapOrderFrom(keys, CHOOSE k \in keys : \A o \in keys \ {k} : StrLess(k, o))
MapOrderFrom(keys, k) == << k >> \o MapOrder(keys \ {k})

\* The most digits a JSON number shows before it turns to an exponent.
JsonMaxExp == 15

\* The digits ds of a number with n of them before the point.
JsonPointText(ds, n) ==
    IF Len(ds) <= n /\ n <= JsonMaxExp THEN ds \o Zeros(n - Len(ds)) \o << ".", "0" >>
    ELSE IF 0 < n /\ n <= JsonMaxExp THEN Take(ds, n) \o << "." >> \o Drop(ds, n)
    ELSE IF -4 < n /\ n <= 0 THEN << "0", "." >> \o Zeros(-n) \o ds
    ELSE SciText(ds, n - 1)

\* The shortest digits ds of a number whose last digit has exponent e.
JsonDigitsText(ds, e) == JsonPointText(ds, Len(ds) + e)

\* dump() of a floating-point number: its shortest digits, with ".0" when
\* they show no fraction.
JsonFloatText(d) ==
    IF d.m = 0 THEN << "0", ".", "0" >>
    ELSE (IF d.m < 0 THEN << "-" >> ELSE <<>>) \o JsonDigitsText(NatText(Abs(d.m)), d.e)

\* dump() of a string: quoted, with '"' and '\\' escaped.
RECURSIVE JsonQuoted(_)
JsonQuoted(s) ==
    IF s = <<>> THEN <<>>
    ELSE (IF Head(s) \in {"\"", "\\"} THEN << "\\", Head(s) >> ELSE << Head(s) >>)
            \o JsonQuoted(Tail(s))

\* nlohmann::json::dump().
RECURSIVE dump(_)
RECURSIVE DumpElems(_, _)
RECURSIVE DumpMembers(_, _, _)
dump(j) ==
    CASE j.t = "null"           -> << "n", "u", "l", "l" >>
      [] j.t = "boolean"        -> IF j.v THEN << "t", "r", "u", "e" >>
                                   ELSE << "f", "a", "l", "s", "e" >>
      [] j.t = "number_integer" -> IntText(j.v)
      [] j.t = "number_unsigned" -> NatText(j.v)
      [] j.t = "number_float"   -> JsonFloatText(j.v)
      [] j.t = "string"         -> << "\"" >> \o JsonQuoted(j.v) \o << "\"" >>
      [] j.t = "array"          -> << "[" >> \o DumpElems(j.v, TRUE) \o << "]" >>
      [] j.t = "object"         -> << "{" >> \o DumpMembers(j.v, MapOrder(DOMAIN j.v), TRUE)
                                        \o << "}" >>
DumpElems(elems, first) ==
    IF elems = <<>> THEN <<>>
    ELSE (IF first THEN <<>> ELSE << "," >>) \o dump(Head(elems))
            \o DumpElems(Tail(elems), FALSE)
DumpMembers(members, keys, first) ==
    IF keys = <<>> THEN <<>>
    ELSE (IF first THEN <<>> ELSE << "," >>)
            \o << "\"" >> \o JsonQuoted(Head(keys)) \o << "\"", ":" >>
            \o dump(members[Head(keys)])
            \o DumpMembers(members, Tail(keys), FALSE)

\* A to_json that stores the text of every value, as its default branch does.
JsonOfText_untyped(type, repr) == JString(repr)

\* The JSON value to_json stores for a parameter of the type, from the text
\* repr of its value: std::stoi, std::stod, the texts taken for true.
JsonOfText(type, repr) ==
    CASE type = "Integer"       -> JInt(ReadInteger(repr).v)
      [] type = "UnsignedInteger" -> JUnsigned(ReadInteger(repr).v)
      [] type = "FloatingPoint" -> JFloat(ReadDouble(repr).v)
      [] type = "Boolean"       -> JBool(repr \in {<< "1" >>, << "t", "r", "u", "e" >>,
                                                   << "T", "r", "u", "e" >>})
      [] type = "String"        -> JString(repr)

\* The members to_json stores for the sorted names.
JsonOfNames(ps, names) ==
    [n \in {names[i] : i \in 1..Len(names)} \cap DOMAIN ps |->
        JsonOfText(ps[n].type, Param_to_string(ps[n]))]

\* ParamSet::to_json: one member per name of the sorted names.
to_json(ps, order) == JObject(JsonOfNames(ps, SortNames(order)))

\* A conversion that takes every JSON number for a Boolean, a fraction too.
JsonValueText_any_number(type, it) ==
    CASE type = "Boolean" ->
            IF it.t = "boolean" THEN [ok |-> TRUE, value |-> BoolText(it.v)]
            ELSE IF it.t \in {"number_integer", "number_unsigned"}
            THEN [ok |-> TRUE, value |-> BoolText(it.v # 0)]
            ELSE IF it.t = "number_float"
            THEN [ok |-> TRUE, value |-> BoolText(it.v # DZero)]
            ELSE IF it.t = "string" THEN [ok |-> TRUE, value |-> it.v]
            ELSE [ok |-> FALSE, value |-> <<>>]
      [] type \in {"Integer", "UnsignedInteger", "FloatingPoint"} ->
            IF it.t \in {"number_integer", "number_unsigned", "number_float"}
            THEN [ok |-> TRUE, value |-> dump(it)]
            ELSE IF it.t = "string" THEN [ok |-> TRUE, value |-> it.v]
            ELSE [ok |-> FALSE, value |-> <<>>]
      [] OTHER ->
            IF it.t = "string" THEN [ok |-> TRUE, value |-> it.v]
            ELSE [ok |-> TRUE, value |-> dump(it)]

\* A conversion that takes a JSON boolean for a numeric parameter, as 1 or 0.
JsonValueText_bool_as_number(type, it) ==
    CASE type = "Boolean" ->
            IF it.t = "boolean" THEN [ok |-> TRUE, value |-> BoolText(it.v)]
            ELSE IF it.t \in {"number_integer", "number_unsigned"}
            THEN [ok |-> TRUE, value |-> BoolText(it.v # 0)]
            ELSE IF it.t = "string" THEN [ok |-> TRUE, value |-> it.v]
            ELSE [ok |-> FALSE, value |-> <<>>]
      [] type \in {"Integer", "UnsignedInteger", "FloatingPoint"} ->
            IF it.t \in {"number_integer", "number_unsigned", "number_float"}
            THEN [ok |-> TRUE, value |-> dump(it)]
            ELSE IF it.t = "boolean" THEN [ok |-> TRUE, value |-> BoolText(it.v)]
            ELSE IF it.t = "string" THEN [ok |-> TRUE, value |-> it.v]
            ELSE [ok |-> FALSE, value |-> <<>>]
      [] OTHER ->
            IF it.t = "string" THEN [ok |-> TRUE, value |-> it.v]
            ELSE [ok |-> TRUE, value |-> dump(it)]

\* A conversion that takes nothing but a JSON string for a String parameter.
JsonValueText_strict_text(type, it) ==
    CASE type = "Boolean" ->
            IF it.t = "boolean" THEN [ok |-> TRUE, value |-> BoolText(it.v)]
            ELSE IF it.t \in {"number_integer", "number_unsigned"}
            THEN [ok |-> TRUE, value |-> BoolText(it.v # 0)]
            ELSE IF it.t = "string" THEN [ok |-> TRUE, value |-> it.v]
            ELSE [ok |-> FALSE, value |-> <<>>]
      [] type \in {"Integer", "UnsignedInteger", "FloatingPoint"} ->
            IF it.t \in {"number_integer", "number_unsigned", "number_float"}
            THEN [ok |-> TRUE, value |-> dump(it)]
            ELSE IF it.t = "string" THEN [ok |-> TRUE, value |-> it.v]
            ELSE [ok |-> FALSE, value |-> <<>>]
      [] OTHER ->
            IF it.t = "string" THEN [ok |-> TRUE, value |-> it.v]
            ELSE [ok |-> FALSE, value |-> <<>>]

\* from_json: the text handed to from_string for the value it of a parameter
\* of the type: [ok, value].
JsonValueText(type, it) ==
    CASE type = "Boolean" ->
            IF it.t = "boolean" THEN [ok |-> TRUE, value |-> BoolText(it.v)]
            ELSE IF it.t \in {"number_integer", "number_unsigned"}
            THEN [ok |-> TRUE, value |-> BoolText(it.v # 0)]
            ELSE IF it.t = "string" THEN [ok |-> TRUE, value |-> it.v]
            ELSE [ok |-> FALSE, value |-> <<>>]
      [] type \in {"Integer", "UnsignedInteger", "FloatingPoint"} ->
            IF it.t \in {"number_integer", "number_unsigned", "number_float"}
            THEN [ok |-> TRUE, value |-> dump(it)]
            ELSE IF it.t = "string" THEN [ok |-> TRUE, value |-> it.v]
            ELSE [ok |-> FALSE, value |-> <<>>]
      [] OTHER ->
            IF it.t = "string" THEN [ok |-> TRUE, value |-> it.v]
            ELSE [ok |-> TRUE, value |-> dump(it)]

\* The member loop of from_json over the keys still to visit: JsonMember is
\* the body of the loop for a declared name once the text of its value is
\* made, JsonApplied the body after from_string.
RECURSIVE JsonLoop(_, _, _, _)
RECURSIVE JsonMember(_, _, _, _)
RECURSIVE JsonApplied(_, _, _, _)
JsonLoop(ps, members, keys, error) ==
    IF keys = <<>> THEN [ret |-> TRUE, error |-> error, params |-> ps]
    ELSE IF Head(keys) \notin DOMAIN ps
    THEN [ret |-> FALSE, error |-> ErrUnknown, params |-> ps]
    ELSE JsonMember(ps, members, keys,
                    JsonValueText(ps[Head(keys)].type, members[Head(keys)]))
JsonMember(ps, members, keys, text) ==
    IF ~text.ok THEN [ret |-> FALSE, error |-> ErrJsonType, params |-> ps]
    ELSE JsonApplied(ps, members, keys, Param_from_string(ps[Head(keys)], text.value))
JsonApplied(ps, members, keys, r) ==
    IF ~r.ret THEN [ret |-> FALSE, error |-> r.error, params |-> ps]
    ELSE JsonLoop([ps EXCEPT ![Head(keys)] = r.param], members, Tail(keys), r.error)

\* A from_json without the error.clear() it starts with.
from_json_keeping(ps, j, error) ==
    IF j.t # "object" THEN [ret |-> FALSE, error |-> ErrNotObject, params |-> ps]
    ELSE JsonLoop(ps, j.v, MapOrder(DOMAIN j.v), error)

\* ParamSet::from_json: error.clear(), the object check, then the loop.
from_json(ps, j, error) ==
    IF j.t # "object" THEN [ret |-> FALSE, error |-> ErrNotObject, params |-> ps]
    ELSE JsonLoop(ps, j.v, MapOrder(DOMAIN j.v), NoError)

(***************************************************************************)
(* The bounded inputs of the model.                                        *)
(***************************************************************************)

\* A registry holds at most MaxParams parameters.
MaxParams == 2

\* A compact input holds at most MaxTokens tokens, a JSON object at most
\* MaxMembers members.
MaxTokens == 2

MaxMembers == 2

Name_a == << "a" >>

Name_e == << "e" >>

Name_m == << "m" >>

Name_t == << "t" >>

\* A name no declaration of the model uses.
Name_z == << "z" >>

\* Constraints<int> as the tests set them: an inclusive range.
IntRange == [has_min |-> TRUE, min |-> 0, has_max |-> TRUE, max |-> 12]

\* A maximum alone; the min field holds a value though has_min is false.
IntMaxOnly == [has_min |-> FALSE, min |-> 5, has_max |-> TRUE, max |-> 12]

\* A minimum alone; the max field holds a value though has_max is false.
DoubleMinOnly ==
    [has_min |-> TRUE, min |-> DNorm(5, -1), has_max |-> FALSE, max |-> DZero]

\* A whitelist with a length limit one of its entries exceeds, and an entry
\* that holds a ';'; min_length holds a value though has_min_length is false.
ModeConstraints ==
    [has_min_length |-> FALSE, min_length |-> 3,
     has_max_length |-> TRUE, max_length |-> 2,
     has_allowed |-> TRUE,
     allowed_values |-> << << "x" >>, << "y", ";" >>, << "a", "b", "e" >> >>]

\* The declarations add is called with: [name, type, default_value, constraints].
Decl(name, type, default_value, constraints) ==
    [name |-> name, type |-> type, default_value |-> default_value,
     constraints |-> constraints]

Decls ==
    << Decl(Name_a, "Integer", 0, IntRange),
      Decl(Name_a, "Integer", 0, IntMaxOnly),
      Decl(Name_m, "String", << "z", "z", "z" >>, ModeConstraints),
      Decl(Name_t, "FloatingPoint", DNorm(60, 0), DoubleMinOnly),
      Decl(Name_e, "Boolean", TRUE, NoBoolConstraints) >>

Names == {Name_a, Name_m, Name_t, Name_e, Name_z}

IntValues == {-1, 0, 12, 13}

DoubleValues == {DNorm(25, -2), DNorm(5, -1), DNorm(60, 0), DNorm(1234567, -4)}

StringValues == { << "x" >>, << "y", ";" >>, << "a", "b", "e" >>, << "b" >> }

\* The values set<T> is called with, by the type T.
ValuesOf(type) ==
    CASE type = "Integer"       -> IntValues
      [] type = "FloatingPoint" -> DoubleValues
      [] type = "Boolean"       -> BOOLEAN
      [] type = "String"        -> StringValues

SetTypes == {"Integer", "FloatingPoint", "Boolean", "String"}

\* The text the caller's error string holds on entry: an earlier error.
Stale == "stale"

\* The tokens the compact inputs are made of.
CompactTokens ==
    { << "a", "=", "0" >>,
      << "a", "=", "1", "2" >>,
      << "a", "=", "1", "3" >>,
      << "e", "=", "0" >>,
      << "m", "=", "\\" >>,
      << "z", "=", "1" >>,
      << "m" >> }

\* The tokens joined by ';'.
RECURSIVE JoinTokens(_)
JoinTokens(tokens) ==
    IF tokens = <<>> THEN <<>>
    ELSE IF Len(tokens) = 1 THEN Head(tokens)
    ELSE Head(tokens) \o << ";" >> \o JoinTokens(Tail(tokens))

\* The texts of at most n tokens.
TokenTexts(n) ==
    {<<>>} \cup UNION { {JoinTokens(ts) : ts \in [1..k -> CompactTokens]} : k \in 1..n }

\* The texts from_compact_string is called with.
CompactInputs == TokenTexts(MaxTokens)

\* The members the JSON objects are made of: <<key, value>>.
JsonMembers ==
    { << Name_a, JInt(12) >>,
      << Name_a, JInt(13) >>,
      << Name_a, JString(<< "x" >>) >>,
      << Name_a, JBool(TRUE) >>,
      << Name_e, JBool(FALSE) >>,
      << Name_m, JString(<< "x" >>) >>,
      << Name_t, JFloat(DNorm(5, -1)) >>,
      << Name_z, JInt(1) >> }

\* The documents from_json is called with: objects of distinct keys, and
\* documents that are no object.
JsonInputs ==
    { JObject([k \in {mb[1] : mb \in ms} |-> (CHOOSE mb \in ms : mb[1] = k)[2]]) :
        ms \in { ms \in SUBSET JsonMembers :
                    /\ Cardinality(ms) <= MaxMembers
                    /\ \A x, y \in ms : x[1] = y[1] => x = y } }
    \cup { JNull, JInt(1), JArray(<< JInt(1) >>) }

\* The orders in which an unordered_map of the names may hand them out.
Orders(names) ==
    { o \in [1..Cardinality(names) -> names] :
        \A i, j \in 1..Cardinality(names) : i # j => o[i] # o[j] }

(***************************************************************************)
(* The state machine.  A behaviour is a sequence of calls on one ParamSet. *)
(* The variable call records one call of the behaviour, the observed one,  *)
(* with its arguments, its results and the registry it started from; the   *)
(* calls before it leave call empty, and no call follows it.               *)
(***************************************************************************)

NoCall == [op |-> "none"]

Init ==
    /\ params = << >>
    /\ call = NoCall

\* The effect of a call with outcome r: the registry it leaves and, when the
\* call is the observed one, its record: the arguments args, the results and
\* the registry before the call.
Returns(r, op, args, observed) ==
    /\ params' = r.params
    /\ call' = IF observed
               THEN [op |-> op, args |-> args, ret |-> r.ret, error |-> r.error,
                     pre |-> params]
               ELSE NoCall

\* ParamSet::add<T>(name, default_value, constraints); ret is "no throw".
Add(d, observed) ==
    /\ call = NoCall
    /\ Cardinality(DOMAIN params) < MaxParams \/ d.name \in DOMAIN params
    /\ Returns(AddOutcome(ParamSet_add(params, d.name, d.type, d.default_value,
                                       d.constraints)),
               "add", d, observed)

\* ParamSet::set<T>(name, value, error).
Set(name, type, value, observed) ==
    /\ call = NoCall
    /\ Returns(ParamSet_set(params, name, type, value, Stale),
               "set", [name |-> name, type |-> type, value |-> value], observed)

\* Param<T>::reset(error), on the reference add returned for name.
Reset(name, observed) ==
    /\ call = NoCall
    /\ name \in DOMAIN params
    /\ Returns(Stored(params, name, Param_reset(params[name])),
               "reset", [name |-> name], observed)

\* ParamSet::from_compact_string(s, error).
FromCompactString(s, observed) ==
    /\ call = NoCall
    /\ Returns(from_compact_string(params, s, Stale),
               "from_compact_string", [s |-> s], observed)

\* ParamSet::from_json(j, error).
FromJson(j, observed) ==
    /\ call = NoCall
    /\ Returns(from_json(params, j, Stale), "from_json", [j |-> j], observed)

\* ParamSet::get<T>(name) const; res is [threw, error, value].
Get(name, type) ==
    /\ call = NoCall
    /\ params' = params
    /\ call' = [op |-> "get", args |-> [name |-> name, type |-> type],
                res |-> ParamSet_get(params, name, type), pre |-> params]

\* ParamSet::get_or<T>(name, fallback) const.
GetOr(name, type, fallback) ==
    /\ call = NoCall
    /\ params' = params
    /\ call' = [op |-> "get_or",
                args |-> [name |-> name, type |-> type, fallback |-> fallback],
                res |-> ParamSet_get_or(params, name, type, fallback), pre |-> params]

\* ParamSet::to_compact_string() const, the map handing out its names in order.
ToCompactString(order) ==
    /\ call = NoCall
    /\ params' = params
    /\ call' = [op |-> "to_compact_string", args |-> [order |-> order],
                out |-> to_compact_string(params, order), pre |-> params]

\* ParamSet::to_json() const.
ToJson(order) ==
    /\ call = NoCall
    /\ params' = params
    /\ call' = [op |-> "to_json", args |-> [order |-> order],
                out |-> to_json(params, order), pre |-> params]

\* The receiver of an exchange: a new ParamSet on which the declarations of
\* ps are replayed (same names, types, defaults, constraints).
SameSchema(ps) ==
    [n \in DOMAIN ps |-> Param(ps[n].type, ps[n].default_value, ps[n].constraints)]

\* The exchange of the example and of the round-trip tests: the sender's
\* to_compact_string, then from_compact_string on a receiver of the same
\* schema.  out is the text sent, rx the outcome on the receiver.
CompactRoundTrip(order) ==
    /\ call = NoCall
    /\ params' = params
    /\ call' = [op |-> "compact_round_trip", args |-> [order |-> order],
                out |-> to_compact_string(params, order),
                rx |-> from_compact_string(SameSchema(params),
                                           to_compact_string(params, order), Stale),
                pre |-> params]

\* The same exchange with to_json and from_json.
JsonRoundTrip(order) ==
    /\ call = NoCall
    /\ params' = params
    /\ call' = [op |-> "json_round_trip", args |-> [order |-> order],
                out |-> to_json(params, order),
                rx |-> from_json(SameSchema(params), to_json(params, order), Stale),
                pre |-> params]

Next ==
    \/ \E observed \in BOOLEAN :
        \/ \E i \in 1..Len(Decls) : Add(Decls[i], observed)
        \/ \E name \in Names, type \in SetTypes :
                \E value \in ValuesOf(type) : Set(name, type, value, observed)
        \/ \E name \in Names : Reset(name, observed)
        \/ \E s \in CompactInputs : FromCompactString(s, observed)
        \/ \E j \in JsonInputs : FromJson(j, observed)
    \/ \E name \in Names, type \in SetTypes : Get(name, type)
    \/ \E name \in Names, type \in SetTypes :
            \E fallback \in ValuesOf(type) : GetOr(name, type, fallback)
    \/ \E order \in Orders(DOMAIN params) : ToCompactString(order)
    \/ \E order \in Orders(DOMAIN params) : ToJson(order)
    \/ \E order \in Orders(DOMAIN params) : CompactRoundTrip(order)
    \/ \E order \in Orders(DOMAIN params) : JsonRoundTrip(order)

Spec == Init /\ [][Next]_vars

(***************************************************************************)
(* The exchange of a text.  The registry is the one of the escape test, a  *)
(* text parameter without constraints, next to an integer parameter; the   *)
(* text is set to every text of at most MaxText characters over the three  *)
(* characters of the format and one plain character.                       *)
(***************************************************************************)

MaxText == 3

FormatChars == {";", "=", "\\"}

TextChars == FormatChars \cup {"a"}

Texts == UNION { [1..n -> TextChars] : n \in 0..MaxText }

InitEscape ==
    /\ params = ParamSet_add(
                    ParamSet_add(<< >>, Name_m, "String", <<>>, NoStringConstraints).params,
                    Name_a, "Integer", 0, IntRange).params
    /\ call = NoCall

NextEscape ==
    \/ \E value \in Texts : Set(Name_m, "String", value, FALSE)
    \/ \E order \in Orders(DOMAIN params) : CompactRoundTrip(order)

SpecEscape == InitEscape /\ [][NextEscape]_vars

(***************************************************************************)
(* The decoders on a declared registry.  The registry is the one of the    *)
(* tests' schema without its double: an int in a range, a bool and a text  *)
(* with a whitelist; set gives the parameters their values, and the        *)
(* decoders are given texts of up to MaxEntries tokens.                    *)
(***************************************************************************)

MaxEntries == 3

InitDecode ==
    /\ params = ParamSet_add(
                    ParamSet_add(
                        ParamSet_add(<< >>, Name_a, "Integer", 0, IntRange).params,
                        Name_e, "Boolean", TRUE, NoBoolConstraints).params,
                    Name_m, "String", << "z", "z", "z" >>, ModeConstraints).params
    /\ call = NoCall

NextDecode ==
    \/ \E name \in Names, type \in SetTypes :
            \E value \in ValuesOf(type) : Set(name, type, value, FALSE)
    \/ \E observed \in BOOLEAN :
        \/ \E s \in TokenTexts(MaxEntries) : FromCompactString(s, observed)
        \/ \E j \in JsonInputs : FromJson(j, observed)

SpecDecode == InitDecode /\ [][NextDecode]_vars

(***************************************************************************)
(* The decoders on one value.  The registry has one parameter of each      *)
(* kind; the decoders are given one entry, whose value is any text of up   *)
(* to MaxValueLen characters: digits, a letter, the point and the sign.    *)
(***************************************************************************)

MaxValueLen == 2

ValueChars == {"1", "3", "x", ".", "-"}

ValueTexts == UNION { [1..n -> ValueChars] : n \in 0..MaxValueLen }

ValueNames == {Name_a, Name_t, Name_e, Name_m}

\* The JSON values of a member: every text as a string, and a number and a
\* boolean of each type.
ValueJsons ==
    {JString(x) : x \in ValueTexts}
        \cup {JInt(3), JFloat(DNorm(15, -1)), JBool(FALSE)}

InitValue ==
    /\ params = ParamSet_add(
                    ParamSet_add(
                        ParamSet_add(
                            ParamSet_add(<< >>, Name_a, "Integer", 0, IntRange).params,
                            Name_t, "FloatingPoint", DNorm(60, 0), DoubleMinOnly).params,
                        Name_e, "Boolean", TRUE, NoBoolConstraints).params,
                    Name_m, "String", << "z", "z", "z" >>, ModeConstraints).params
    /\ call = NoCall

NextValue ==
    \/ \E name \in ValueNames, type \in SetTypes :
            \E value \in ValuesOf(type) : Set(name, type, value, FALSE)
    \/ \E name \in ValueNames, x \in ValueTexts :
            FromCompactString(name \o << "=" >> \o escape_compact(x), TRUE)
    \/ \E name \in ValueNames, it \in ValueJsons :
            FromJson(JObject([k \in {name} |-> it]), TRUE)

SpecValue == InitValue /\ [][NextValue]_vars

(***************************************************************************)
(* Text parameters.  Three text parameters whose rules overlap: a          *)
(* whitelist with an entry longer than the maximum length, a minimum       *)
(* length above the maximum length, and a whitelist with an entry shorter  *)
(* than the minimum length.  set is called with every text of Texts.       *)
(***************************************************************************)

\* A maximum length that one entry of the whitelist exceeds.
ShortListed ==
    [has_min_length |-> FALSE, min_length |-> 3,
     has_max_length |-> TRUE, max_length |-> 2,
     has_allowed |-> TRUE, allowed_values |-> << << "a" >>, << "a", "a", "a" >> >>]

\* A minimum length above the maximum length: no text has both.
NoLength ==
    [has_min_length |-> TRUE, min_length |-> 3,
     has_max_length |-> TRUE, max_length |-> 1,
     has_allowed |-> TRUE, allowed_values |-> << << "a", "a" >> >>]

\* A minimum length that one entry of the whitelist stays below; the maximum
\* length holds a value and is not active.
LongListed ==
    [has_min_length |-> TRUE, min_length |-> 2,
     has_max_length |-> FALSE, max_length |-> 1,
     has_allowed |-> TRUE, allowed_values |-> << << "a" >>, << "a", ";" >> >>]

InitText ==
    /\ params = ParamSet_add(
                    ParamSet_add(
                        ParamSet_add(<< >>, Name_m, "String", <<>>, ShortListed).params,
                        Name_t, "String", <<>>, NoLength).params,
                    Name_a, "String", <<>>, LongListed).params
    /\ call = NoCall

NextText ==
    \/ \E observed \in BOOLEAN, name \in {Name_m, Name_t, Name_a}, value \in Texts :
            Set(name, "String", value, observed)
    \/ \E observed \in BOOLEAN, name \in {Name_m, Name_t, Name_a} :
            Reset(name, observed)

SpecText == InitText /\ [][NextText]_vars

(***************************************************************************)
(* to_json on parameters of every kind.  The registry declares any of five *)
(* parameters, one of each kind, the unsigned one by add<unsigned int>;    *)
(* set gives them their values.                                            *)
(***************************************************************************)

Name_u == << "u" >>

UnsignedValues == {0, 7}

AllKinds ==
    ParamSet_add(
        ParamSet_add(
            ParamSet_add(
                ParamSet_add(
                    ParamSet_add(<< >>, Name_a, "Integer", 0, IntRange).params,
                    Name_t, "FloatingPoint", DNorm(60, 0), DoubleMinOnly).params,
                Name_e, "Boolean", TRUE, NoBoolConstraints).params,
            Name_m, "String", << "z", "z", "z" >>, ModeConstraints).params,
        Name_u, "UnsignedInteger", 1, NoUnsignedConstraints).params

InitJson ==
    /\ \E declared \in SUBSET DOMAIN AllKinds : params = [n \in declared |-> AllKinds[n]]
    /\ call = NoCall

NextJson ==
    \/ \E name \in Names, type \in SetTypes :
            \E value \in ValuesOf(type) : Set(name, type, value, FALSE)
    \/ \E value \in UnsignedValues : Set(Name_u, "UnsignedInteger", value, FALSE)
    \/ \E order \in Orders(DOMAIN params) : ToJson(order)

SpecJson == InitJson /\ [][NextJson]_vars

(***************************************************************************)
(* from_json on values of every JSON type.  The registry has a parameter   *)
(* of each kind; a document holds one member, of any JSON type, and at     *)
(* most one more member, which the parameter it names accepts.             *)
(***************************************************************************)

\* A maximum length alone: it accepts some serialized texts and not others.
MaxTwo ==
    [has_min_length |-> FALSE, min_length |-> 0,
     has_max_length |-> TRUE, max_length |-> 2,
     has_allowed |-> FALSE, allowed_values |-> <<>>]

DocSchema ==
    ParamSet_add(
        ParamSet_add(
            ParamSet_add(
                ParamSet_add(
                    ParamSet_add(<< >>, Name_a, "Integer", 0, IntRange).params,
                    Name_t, "FloatingPoint", DNorm(60, 0), DoubleMinOnly).params,
                Name_e, "Boolean", TRUE, NoBoolConstraints).params,
            Name_m, "String", << "z" >>, MaxTwo).params,
        Name_u, "UnsignedInteger", 1, NoUnsignedConstraints).params

\* The JSON values of the member: some of every JSON type.
DocValues ==
    << JNull, JBool(TRUE), JBool(FALSE), JInt(0), JInt(3), JInt(13), JUnsigned(7),
       JFloat(DNorm(15, -1)), JFloat(DZero), JString(<< "x" >>), JString(<< "1" >>),
       JArray(<<>>), JArray(<< JInt(1) >>), JObject(<< >>) >>

\* A value the parameter of the name accepts, and which is not its default.
ProbeValue(name) ==
    CASE name = Name_a -> JInt(12)
      [] name = Name_t -> JFloat(DNorm(5, -1))
      [] name = Name_e -> JBool(FALSE)
      [] name = Name_m -> JString(<< "y" >>)
      [] name = Name_u -> JUnsigned(7)

\* The document of the member name: it, and of the probe of the name other
\* when other is another name.
DocOf(name, it, other) ==
    JObject([k \in {name, other} |-> IF k = name THEN it ELSE ProbeValue(k)])

InitDoc ==
    /\ params = DocSchema
    /\ call = NoCall

NextDoc ==
    \/ \E name \in DOMAIN DocSchema, type \in SetTypes :
            \E value \in ValuesOf(type) : Set(name, type, value, FALSE)
    \/ \E name \in DOMAIN DocSchema, other \in DOMAIN DocSchema, i \in DOMAIN DocValues :
            FromJson(DocOf(name, DocValues[i], other), TRUE)

SpecDoc == InitDoc /\ [][NextDoc]_vars

(***************************************************************************)
(* from_compact_string on every text.  The registry has one text parameter *)
(* without constraints, named m; the decoder is given every text of up to  *)
(* MaxCompactLen characters over the name, the two separators and the      *)
(* backslash.                                                              *)
(***************************************************************************)

MaxCompactLen == 5

CompactChars == {"m", "=", ";", "\\"}

CompactTexts == UNION { [1..n -> CompactChars] : n \in 0..MaxCompactLen }

InitCompact ==
    /\ params = ParamSet_add(<< >>, Name_m, "String", <<>>, NoStringConstraints).params
    /\ call = NoCall

NextCompact ==
    \/ \E value \in ValuesOf("String") : Set(Name_m, "String", value, FALSE)
    \/ \E s \in CompactTexts : FromCompactString(s, TRUE)

SpecCompact == InitCompact /\ [][NextCompact]_vars

(***************************************************************************)
(* The compact exchange of integers, booleans and texts.  The registry     *)
(* declares any of four parameters: an int whose default is above its      *)
(* maximum, a bool, a text without constraints, and an int whose name      *)
(* holds an '='.  set gives them their values, the text any text of Texts. *)
(***************************************************************************)

Name_aeq == << "a", "=" >>

RoundSchema ==
    ParamSet_add(
        ParamSet_add(
            ParamSet_add(
                ParamSet_add(<< >>, Name_a, "Integer", 13, IntMaxOnly).params,
                Name_e, "Boolean", TRUE, NoBoolConstraints).params,
            Name_z, "String", <<>>, NoStringConstraints).params,
        Name_aeq, "Integer", 0, NoIntConstraints).params

InitRound ==
    /\ \E declared \in SUBSET DOMAIN RoundSchema :
            params = [n \in declared |-> RoundSchema[n]]
    /\ call = NoCall

NextRound ==
    \/ \E value \in IntValues : Set(Name_a, "Integer", value, FALSE)
    \/ \E value \in BOOLEAN : Set(Name_e, "Boolean", value, FALSE)
    \/ \E value \in Texts : Set(Name_z, "String", value, FALSE)
    \/ \E order \in Orders(DOMAIN params) : CompactRoundTrip(order)

SpecRound == InitRound /\ [][NextRound]_vars

(***************************************************************************)
(* Properties.  What a decoder is given is read here as the sequence of    *)
(* its entries, each [fault, name, it]: the name, the value as a JSON      *)
(* value (a compact value is a string), and the fault of an entry that has *)
(* no name and value to offer.                                             *)
(***************************************************************************)

\* The parameter's value satisfies the parameter's constraints.
Satisfies(p) == validate_constraints(p.type, p.constraints, p.value) = NoError

Decoders == {"from_compact_string", "from_json"}

\* The tokens of s: the parts between the ';' that no '\' escapes.
RECURSIVE SplitTokens(_, _, _, _)
SplitTokens(s, i, token, escaped) ==
    IF i > Len(s) THEN << token >>
    ELSE IF escaped THEN SplitTokens(s, i + 1, Append(token, s[i]), FALSE)
    ELSE IF s[i] = ";" THEN << token >> \o SplitTokens(s, i + 1, <<>>, FALSE)
    ELSE SplitTokens(s, i + 1, Append(token, s[i]), s[i] = "\\")

\* The entry a token stands for.
CompactEntry(t) ==
    IF ~unescape_compact(t).ok
    THEN [fault |-> ErrTrailingBackslash, name |-> <<>>, it |-> JNull]
    ELSE IF FindEq(t, 1, FALSE) = 0
    THEN [fault |-> ErrMissingEq, name |-> <<>>, it |-> JNull]
    ELSE [fault |-> NoError, name |-> Take(t, FindEq(t, 1, FALSE) - 1),
          it |-> JString(unescape_compact(Drop(t, FindEq(t, 1, FALSE))).out)]

\* The entries of a compact text: its tokens that are not empty, in order.
CompactEntries(s) ==
    LET tokens == SelectSeq(SplitTokens(s, 1, <<>>, FALSE), LAMBDA t : t # <<>>)
    IN  [i \in 1..Len(tokens) |-> CompactEntry(tokens[i])]

\* The entries of a JSON object: its members in ascending order of the keys.
JsonEntries(j) ==
    LET keys == MapOrder(DOMAIN j.v)
    IN  [i \in 1..Len(keys) |-> [fault |-> NoError, name |-> keys[i], it |-> j.v[keys[i]]]]

\* The entries of the observed decode; a document that is no object has none.
Entries ==
    IF call.op = "from_compact_string" THEN CompactEntries(call.args.s)
    ELSE IF call.args.j.t = "object" THEN JsonEntries(call.args.j)
    ELSE <<>>

\* What from_string makes of the entry e for the parameter it names.
Assigned(schema, e) ==
    Param_from_string(schema[e.name], JsonValueText(schema[e.name].type, e.it).value)

\* The entry e names no parameter of the schema.
Undeclared(schema, e) == e.fault = NoError /\ e.name \notin DOMAIN schema

\* The entry e cannot be applied: it is malformed, names no parameter, or its
\* value is not one the parameter takes.  This depends on the types and the
\* constraints alone, which no call changes.
Rejected(schema, e) ==
    \/ e.fault # NoError
    \/ e.name \notin DOMAIN schema
    \/ ~JsonValueText(schema[e.name].type, e.it).ok
    \/ ~Assigned(schema, e).ret

\* The place of the first entry that cannot be applied; one past the last
\* entry when there is none.
FirstRejected(schema, es) ==
    CHOOSE k \in 1..(Len(es) + 1) :
        /\ k = Len(es) + 1 \/ Rejected(schema, es[k])
        /\ \A i \in 1..(k - 1) : ~Rejected(schema, es[i])

\* The parameter n once the entries before place k are applied in order.
AppliedBefore(ps, es, k, n) ==
    LET named == {i \in 1..(k - 1) : es[i].name = n}
    IN  IF named = {} THEN ps[n]
        ELSE Assigned(ps, es[CHOOSE i \in named : \A o \in named : o <= i]).param

\* C1, as the specification states it: in every reachable state the value of
\* every parameter satisfies the parameter's constraints.
C1_ValueSatisfiesConstraints ==
    \A n \in DOMAIN params : Satisfies(params[n])

\* C1, amended: in every reachable state the value of every parameter
\* satisfies the parameter's constraints or is the default the parameter was
\* declared with, which add stores without validating it.
C1_ValueSatisfiesConstraintsOrIsDefault ==
    \A n \in DOMAIN params :
        Satisfies(params[n]) \/ params[n].value = params[n].default_value

\* A decode that assigned one parameter and was then stopped by a value above
\* a maximum, next to a parameter that holds a default its constraints reject.
C1_Witness ==
    /\ call.op = "from_compact_string"
    /\ ~call.ret
    /\ call.error = ErrAboveMax
    /\ params # call.pre
    /\ \E n \in DOMAIN params : ~Satisfies(params[n])

\* v is within the bounds of c that are active, the bounds included.
WithinActiveBounds(type, c, v) ==
    IF type = "Integer"
    THEN (c.has_min => v >= c.min) /\ (c.has_max => v <= c.max)
    ELSE (c.has_min => ~DLess(v, c.min)) /\ (c.has_max => ~DLess(c.max, v))

\* C2: set<int> and set<double> on a parameter of that type succeed, and the
\* parameter then holds the value, exactly when the value is within the
\* active bounds (inclusive; a bound whose flag is false is not enforced);
\* otherwise set returns false and the parameter holds what it held before.
C2_SetWithinActiveBounds ==
    ( /\ call.op = "set"
      /\ call.args.type \in {"Integer", "FloatingPoint"}
      /\ call.args.name \in DOMAIN call.pre
      /\ call.pre[call.args.name].type = call.args.type )
    => IF WithinActiveBounds(call.args.type, call.pre[call.args.name].constraints,
                             call.args.value)
       THEN call.ret /\ params[call.args.name].value = call.args.value
       ELSE ~call.ret /\ params[call.args.name].value = call.pre[call.args.name].value

\* A set<int> of a value below the min field of a parameter whose has_min is
\* false: it succeeds.
C2_Witness ==
    /\ call.op = "set"
    /\ call.args.type = "Integer"
    /\ call.args.name \in DOMAIN call.pre
    /\ call.pre[call.args.name].type = "Integer"
    /\ ~call.pre[call.args.name].constraints.has_min
    /\ call.args.value < call.pre[call.args.name].constraints.min
    /\ call.ret
    /\ params[call.args.name].value # call.pre[call.args.name].value

\* C3, as the specification states it, here for the registries whose values
\* all satisfy their constraints: from_compact_string of the text of
\* to_compact_string, on a receiver of the same schema, succeeds and leaves
\* every parameter of the receiver equal to the sender's.
C3_CompactRoundTripExact ==
    (call.op = "compact_round_trip" /\ \A n \in DOMAIN call.pre : Satisfies(call.pre[n]))
    => call.rx.ret /\ call.rx.params = call.pre

\* C4, as the specification states it, here for the registries whose values
\* all satisfy their constraints: from_json of the document of to_json, on a
\* receiver of the same schema, succeeds and leaves every parameter of the
\* receiver equal to the sender's.
C4_JsonRoundTripExact ==
    (call.op = "json_round_trip" /\ \A n \in DOMAIN call.pre : Satisfies(call.pre[n]))
    => call.rx.ret /\ call.rx.params = call.pre

\* The text after "name=" in the pair of the name in a compact text.
FieldOf(out, n) ==
    LET tokens == SplitTokens(out, 1, <<>>, FALSE)
        i == CHOOSE i \in 1..Len(tokens) : Take(tokens[i], Len(n) + 1) = n \o << "=" >>
    IN  Drop(tokens[i], Len(n) + 1)

\* e is v with one '\' added before each ';', '=' and '\' and nothing else.
RECURSIVE OneBackslashAdded(_, _)
OneBackslashAdded(v, e) ==
    IF v = <<>> THEN e = <<>>
    ELSE IF Head(v) \in FormatChars
    THEN Len(e) >= 2 /\ e[1] = "\\" /\ e[2] = Head(v)
            /\ OneBackslashAdded(Tail(v), Drop(e, 2))
    ELSE Len(e) >= 1 /\ e[1] = Head(v) /\ OneBackslashAdded(Tail(v), Tail(e))

\* C5: a text parameter survives the compact round trip whatever ';', '=' and
\* '\' its value holds: in the text of to_compact_string each of them is
\* preceded by exactly one added '\', and from_compact_string of that text on
\* a receiver of the same schema succeeds and restores the text exactly.
C5_EscapedTextSurvives ==
    call.op = "compact_round_trip" =>
        \A n \in DOMAIN call.pre :
            call.pre[n].type = "String" =>
                /\ OneBackslashAdded(call.pre[n].value, FieldOf(call.out, n))
                /\ call.rx.ret
                /\ call.rx.params[n].value = call.pre[n].value

\* A round trip of a text that holds a ';', a '=' and a '\'.
C5_Witness ==
    /\ call.op = "compact_round_trip"
    /\ Name_m \in DOMAIN call.pre
    /\ call.pre[Name_m].type = "String"
    /\ \A c \in FormatChars :
            \E i \in 1..Len(call.pre[Name_m].value) : call.pre[Name_m].value[i] = c
    /\ call.rx.params[Name_m].value = call.pre[Name_m].value

\* The pair to_compact_string writes for the parameter n.
PairText(ps, n) == n \o << "=" >> \o escape_compact(Param_to_string(ps[n]))

\* C6: the text of to_compact_string is one name=value pair for each declared
\* parameter, the names strictly ascending byte by byte, the pairs joined by
\* ';' with no separator before the first or after the last, whatever the
\* order in which the parameters were added, set and are handed out; the call
\* leaves the registry as it was, so the text is a function of the registry.
C6_CompactTextSortedAndStable ==
    call.op = "to_compact_string" =>
        /\ params = call.pre
        /\ \E names \in Orders(DOMAIN call.pre) :
            /\ \A i, j \in 1..Len(names) : i < j => StrLess(names[i], names[j])
            /\ call.out = JoinTokens([i \in 1..Len(names) |-> PairText(call.pre, names[i])])

\* A to_compact_string on two parameters that the map hands out in
\* descending order of their names.
C6_Witness ==
    /\ call.op = "to_compact_string"
    /\ Len(call.args.order) = 2
    /\ StrLess(call.args.order[2], call.args.order[1])
    /\ call.out # <<>>

\* C7: from_compact_string and from_json return false with the
\* unknown-parameter error when the first entry they cannot apply is one
\* whose name is not declared; they return true only when every entry names
\* a declared parameter; and the declared names are the same after the call.
C7_UnknownNameIsFatal ==
    call.op \in Decoders =>
        LET es == Entries
            k  == FirstRejected(call.pre, es)
        IN  /\ DOMAIN params = DOMAIN call.pre
            /\ (k <= Len(es) /\ Undeclared(call.pre, es[k]))
                    => ~call.ret /\ call.error = ErrUnknown
            /\ call.ret => \A i \in 1..Len(es) : ~Undeclared(call.pre, es[i])

\* A from_json stopped by an undeclared key after it applied a member.
C7_Witness ==
    /\ call.op = "from_json"
    /\ ~call.ret
    /\ call.error = ErrUnknown
    /\ params # call.pre
    /\ FirstRejected(call.pre, Entries) = 2
    /\ Undeclared(call.pre, Entries[2])

\* The observed decode failed on an entry whose name is not declared.
FailedOnUnknownName ==
    /\ call.op \in Decoders
    /\ ~call.ret
    /\ call.error = ErrUnknown

\* C8, as the specification states it: when a decode fails on a name that is
\* not declared, every parameter named by an entry before that name still
\* holds the value it held before the call.
C8_EarlierParametersNotMutated ==
    FailedOnUnknownName =>
        LET es == Entries
        IN  \A i \in 1..(FirstRejected(call.pre, es) - 1) :
                params[es[i].name] = call.pre[es[i].name]

\* C8, amended: when a decode fails on a name that is not declared, every
\* parameter that no entry before that name names still holds the value it
\* held before the call; the parameters named before it have been assigned.
C8_OtherParametersNotMutated ==
    FailedOnUnknownName =>
        LET es == Entries
            k  == FirstRejected(call.pre, es)
        IN  \A n \in DOMAIN call.pre :
                (\A i \in 1..(k - 1) : es[i].name # n) => params[n] = call.pre[n]

\* A from_compact_string stopped by an undeclared name that is followed by an
\* entry which would have changed a parameter, and preceded by one that did.
C8_Witness ==
    /\ FailedOnUnknownName
    /\ call.op = "from_compact_string"
    /\ params # call.pre
    /\ LET es == Entries
           k  == FirstRejected(call.pre, es)
       IN  \E i \in (k + 1)..Len(es) :
                /\ ~Rejected(call.pre, es[i])
                /\ \A o \in 1..(k - 1) : es[o].name # es[i].name
                /\ Assigned(call.pre, es[i]).param # call.pre[es[i].name]

\* C9: when from_compact_string or from_json fails, it fails at the first
\* entry that cannot be applied (or on a document that is no object), the
\* entries before that one are applied, in order, and stay applied, and no
\* entry at or after it is applied.
C9_DecodeStopsAtFirstFailure ==
    (call.op \in Decoders /\ ~call.ret) =>
        LET es == Entries
            k  == FirstRejected(call.pre, es)
        IN  /\ \/ (call.op = "from_json" /\ call.args.j.t # "object")
               \/ k <= Len(es)
            /\ \A n \in DOMAIN call.pre : params[n] = AppliedBefore(call.pre, es, k, n)

\* A decode that changed a parameter and then failed at an entry followed by
\* one more entry, which would have changed a parameter too.
C9_Witness ==
    /\ call.op \in Decoders
    /\ ~call.ret
    /\ call.error \notin {ErrUnknown, ErrNotObject}
    /\ params # call.pre
    /\ LET es == Entries
           k  == FirstRejected(call.pre, es)
       IN  \E i \in (k + 1)..Len(es) :
                /\ ~Rejected(call.pre, es[i])
                /\ Assigned(call.pre, es[i]).param # params[es[i].name]

\* C10: set<V> returns false with the unknown-parameter error for a name that
\* is not declared, and false with the type-mismatch error for a name declared
\* with another type than V; the registry is then as it was before the call.
C10_SetRejectsUnknownAndMismatch ==
    call.op = "set" =>
        /\ call.args.name \notin DOMAIN call.pre
            => ~call.ret /\ call.error = ErrUnknown /\ params = call.pre
        /\ (call.args.name \in DOMAIN call.pre
                /\ call.pre[call.args.name].type # call.args.type)
            => ~call.ret /\ call.error = ErrTypeMismatch /\ params = call.pre

\* A set<std::string> on a parameter declared as an int, with a text the
\* registry does not hold.
C10_Witness ==
    /\ call.op = "set"
    /\ call.args.type = "String"
    /\ call.args.name \in DOMAIN call.pre
    /\ call.pre[call.args.name].type = "Integer"
    /\ call.error = ErrTypeMismatch

\* C11: get_or<V>(name, fallback) returns the stored value of a parameter
\* declared with kind V, the fallback for a name that is not declared, and
\* throws the type mismatch for a parameter declared with another kind;
\* get<V>(name) returns the stored value of a parameter of kind V and throws
\* for a name that is not declared and for a parameter of another kind;
\* neither changes the registry.
C11_GetAndGetOr ==
    call.op \in {"get", "get_or"} =>
        /\ params = call.pre
        /\ (call.args.name \in DOMAIN call.pre
                /\ call.pre[call.args.name].type = call.args.type)
            => (~call.res.threw /\ call.res.value = call.pre[call.args.name].value)
        /\ (call.args.name \in DOMAIN call.pre
                /\ call.pre[call.args.name].type # call.args.type)
            => (call.res.threw /\ call.res.error = ErrTypeMismatch)
        /\ (call.args.name \notin DOMAIN call.pre /\ call.op = "get_or")
            => (~call.res.threw /\ call.res.value = call.args.fallback)
        /\ (call.args.name \notin DOMAIN call.pre /\ call.op = "get")
            => (call.res.threw /\ call.res.error = ErrUnknown)

\* A get_or<int> that throws on a text parameter whose value was set.
C11_Witness ==
    /\ call.op = "get_or"
    /\ call.args.name \in DOMAIN call.pre
    /\ call.args.type = "Integer"
    /\ call.pre[call.args.name].type = "String"
    /\ call.pre[call.args.name].value # call.pre[call.args.name].default_value
    /\ call.res.threw

\* C12: right after add(name, d, c) succeeded, get(name) returns d, for every
\* d, a d that violates c included.
C12_AddStoresDefaultAsIs ==
    (call.op = "add" /\ call.ret) =>
        ParamSet_get(params, call.args.name, call.args.type) =
            [threw |-> FALSE, error |-> NoError, value |-> call.args.default_value]

\* An add that succeeded with a default its constraints reject.
C12_Witness ==
    /\ call.op = "add"
    /\ call.ret
    /\ validate_constraints(call.args.type, call.args.constraints,
                            call.args.default_value) # NoError
    /\ params[call.args.name].value = call.args.default_value

\* C13: add with a name that is declared fails with the duplicate-name error
\* (thrown) and leaves the registry as it was: the parameter of that name
\* keeps its kind, value, default and constraints.
C13_DuplicateAddFails ==
    (call.op = "add" /\ call.args.name \in DOMAIN call.pre) =>
        /\ ~call.ret
        /\ call.error = ErrDuplicate
        /\ params = call.pre

\* An add of a declared name with other constraints, the parameter of that
\* name holding a value that was set.
C13_Witness ==
    /\ call.op = "add"
    /\ call.args.name \in DOMAIN call.pre
    /\ call.pre[call.args.name].constraints # call.args.constraints
    /\ call.pre[call.args.name].value # call.pre[call.args.name].default_value
    /\ ~call.ret

\* The declaration of a parameter: its kind, default and constraints.
Declaration(p) ==
    [type |-> p.type, default_value |-> p.default_value, constraints |-> p.constraints]

Mutators == {"add", "set", "reset"} \cup Decoders

\* C14: the schema is write-once.  No call removes a name; set, reset,
\* from_compact_string and from_json never change the kind, default or
\* constraints of a parameter and never add a name; only add extends the set
\* of names, and it leaves the declarations that exist as they are.
C14_SchemaIsWriteOnce ==
    call.op \in Mutators =>
        /\ \A n \in DOMAIN call.pre :
                n \in DOMAIN params /\ Declaration(params[n]) = Declaration(call.pre[n])
        /\ call.op # "add" => DOMAIN params = DOMAIN call.pre

\* A decode that succeeded and changed the value of a parameter whose
\* default it is not.
C14_Witness ==
    /\ call.op \in Decoders
    /\ call.ret
    /\ \E n \in DOMAIN call.pre :
            /\ params[n].value # call.pre[n].value
            /\ params[n].value # params[n].default_value

\* The value the text of the entry e is converted to for a parameter of the
\* type: the text itself for a String, what iss >> parsed reads otherwise.
DecodedValue(type, e) ==
    IF type = "String" THEN JsonValueText(type, e.it).value
    ELSE ParseValue(type, JsonValueText(type, e.it).value).v

\* The entry e carries a value of the type of the parameter it names.
CarriesValue(schema, e) ==
    /\ e.fault = NoError
    /\ e.name \in DOMAIN schema
    /\ JsonValueText(schema[e.name].type, e.it).ok
    /\ schema[e.name].type # "String"
            => ParseValue(schema[e.name].type,
                          JsonValueText(schema[e.name].type, e.it).value).ok

\* What set makes of the value of the entry es[i], on the parameter as the
\* entries before it left it.
SetOfEntry(es, i) ==
    Param_set(AppliedBefore(call.pre, es, i, es[i].name),
              DecodedValue(call.pre[es[i].name].type, es[i]))

\* C15: the decoders validate a decoded value as set does.  A value that
\* set rejects makes the decode return false with the error of set and is
\* not stored, the parameter keeping the value it had when the entry was
\* reached; a value that set accepts is stored.
C15_DecodeValidatesAsSet ==
    call.op \in Decoders =>
        LET es == Entries
            k  == FirstRejected(call.pre, es)
        IN  \A i \in 1..Len(es) :
                (i <= k /\ CarriesValue(call.pre, es[i])) =>
                    IF SetOfEntry(es, i).ret
                    THEN /\ i < k
                         /\ (\A o \in (i + 1)..(k - 1) : es[o].name # es[i].name)
                                => params[es[i].name] = SetOfEntry(es, i).param
                    ELSE /\ i = k
                         /\ ~call.ret
                         /\ call.error = SetOfEntry(es, i).error
                         /\ params[es[i].name] =
                                AppliedBefore(call.pre, es, i, es[i].name)

\* A decode that failed on an integer below the minimum of a parameter that
\* held a value which is not its default.
C15_Witness ==
    /\ call.op \in Decoders
    /\ ~call.ret
    /\ call.error = ErrBelowMin
    /\ \E n \in DOMAIN params :
            /\ params[n].type = "Integer"
            /\ params[n].value # params[n].default_value
            /\ Entries[1].name = n

\* C16: every set, reset, from_compact_string and from_json that fails
\* reports a reason that is not empty, and every one that succeeds leaves the
\* error text empty, whatever the text held on entry (here: Stale).
C16_ErrorTextTellsTheOutcome ==
    call.op \in {"set", "reset"} \cup Decoders =>
        /\ ~call.ret => call.error # NoError
        /\ call.ret => call.error = NoError

\* A decode of an input without entries on a registry with parameters: it
\* succeeds, assigns nothing, and the error text of the caller is empty.
C16_Witness ==
    /\ call.op \in Decoders
    /\ call.ret
    /\ Entries = <<>>
    /\ call.pre # << >>
    /\ call.error = NoError
    /\ Stale # NoError

\* The rules of a text parameter in the order of the specification: minimum
\* length, maximum length, whitelist.  Rule i is broken by the value when it
\* is active and the value does not keep it.
TextRuleBroken(c, value, i) ==
    CASE i = 1 -> c.has_min_length /\ Len(value) < c.min_length
      [] i = 2 -> c.has_max_length /\ Len(value) > c.max_length
      [] i = 3 -> c.has_allowed /\ value \notin {c.allowed_values[o] : o \in DOMAIN c.allowed_values}

TextRuleError == << ErrLenBelowMin, ErrLenAboveMax, ErrNotAllowed >>

BrokenRules(c, value) == {i \in 1..3 : TextRuleBroken(c, value, i)}

\* C17: a text is validated against the active minimum length, then the
\* active maximum length, then the active whitelist; set fails with the
\* error of the first rule the text breaks and leaves the value as it was,
\* so that a text of the whitelist is still held to the lengths; a text that
\* breaks no rule becomes the value.
C17_TextRulesInOrder ==
    (call.op = "set" /\ call.args.type = "String" /\ call.args.name \in DOMAIN call.pre
            /\ call.pre[call.args.name].type = "String") =>
        LET broken == BrokenRules(call.pre[call.args.name].constraints, call.args.value)
        IN  IF broken = {}
            THEN /\ call.ret
                 /\ params = [call.pre EXCEPT ![call.args.name].value = call.args.value]
            ELSE /\ ~call.ret
                 /\ call.error = TextRuleError[CHOOSE i \in broken : \A o \in broken : i <= o]
                 /\ params = call.pre

\* A set of a text that breaks two rules, on a parameter that holds a value
\* which is not its default.
C17_Witness ==
    /\ call.op = "set"
    /\ call.args.name \in DOMAIN call.pre
    /\ call.pre[call.args.name].type = "String"
    /\ call.args.type = "String"
    /\ Cardinality(BrokenRules(call.pre[call.args.name].constraints, call.args.value)) >= 2
    /\ call.pre[call.args.name].value # call.pre[call.args.name].default_value
    /\ ~call.ret

\* The default of the parameter p passes the validation of p.
DefaultIsValid(p) == validate_constraints(p.type, p.constraints, p.default_value) = NoError

\* C18: reset puts the default through the validation of set.  With a
\* default that satisfies the constraints it returns true and the value is
\* the default; with a default that violates them it returns false with the
\* error of the validation and the value stays as it was.
C18_ResetValidatesTheDefault ==
    call.op = "reset" =>
        IF DefaultIsValid(call.pre[call.args.name])
        THEN /\ call.ret
             /\ params = [call.pre EXCEPT ![call.args.name].value =
                                            call.pre[call.args.name].default_value]
        ELSE /\ ~call.ret
             /\ call.error = validate_constraints(call.pre[call.args.name].type,
                                                  call.pre[call.args.name].constraints,
                                                  call.pre[call.args.name].default_value)
             /\ params = call.pre

\* A reset that failed on a parameter whose default violates its constraints
\* and whose value had been set to a valid one.
C18_Witness ==
    /\ call.op = "reset"
    /\ ~call.ret
    /\ ~DefaultIsValid(call.pre[call.args.name])
    /\ Satisfies(params[call.args.name])
    /\ params[call.args.name].value # params[call.args.name].default_value

\* The JSON value of a member matches the parameter p: an integer number
\* that equals the value for Integer and UnsignedInteger, a number for
\* FloatingPoint, the boolean of the value for Boolean, the string of the
\* text for String.
MemberMatches(p, member) ==
    CASE p.type = "Integer"         -> member = JInt(p.value)
      [] p.type = "UnsignedInteger" -> member = JUnsigned(p.value)
      [] p.type = "FloatingPoint"   -> member.t = "number_float"
      [] p.type = "Boolean"         -> member = JBool(p.value)
      [] p.type = "String"          -> member = JString(p.value)

\* C19: to_json returns an object with exactly one member per declared
\* parameter, keyed by the name of the parameter, whose JSON type matches the
\* kind of the parameter: an integer number for Integer and UnsignedInteger,
\* a number for FloatingPoint, a boolean for Boolean that is true exactly
\* when the value is true, and a string equal to the text for String.
C19_JsonMembersAreTyped ==
    call.op = "to_json" =>
        /\ call.out.t = "object"
        /\ DOMAIN call.out.v = DOMAIN call.pre
        /\ \A n \in DOMAIN call.pre : MemberMatches(call.pre[n], call.out.v[n])

\* A to_json of a registry with a parameter of each of the five kinds, the
\* boolean false and the text set.
C19_Witness ==
    /\ call.op = "to_json"
    /\ {call.pre[n].type : n \in DOMAIN call.pre} = ValueType
    /\ \E n \in DOMAIN call.pre : call.pre[n].type = "Boolean" /\ ~call.pre[n].value
    /\ \E n \in DOMAIN call.pre :
            call.pre[n].type = "String" /\ call.pre[n].value # call.pre[n].default_value

\* The text without the sign it may start with.
Unsigned(x) == IF x # <<>> /\ Head(x) \in {"-", "+"} THEN Tail(x) ELSE x

AllDigits(x) == \A i \in 1..Len(x) : IsDigit(x[i])

\* An integer literal: a sign or none, then digits, and nothing else.
IntegerLiteral(x) == Unsigned(x) # <<>> /\ AllDigits(Unsigned(x))

\* Digits with at most one point among them, and at least one digit.
Mantissa(u) ==
    \/ u # <<>> /\ AllDigits(u)
    \/ \E p \in 1..Len(u) :
            u[p] = "." /\ Len(u) > 1 /\ AllDigits(Take(u, p - 1)) /\ AllDigits(Drop(u, p))

\* A decimal literal: a sign or none, a mantissa, an exponent or none.
DecimalLiteral(x) ==
    \/ Mantissa(Unsigned(x))
    \/ \E p \in 2..(Len(Unsigned(x)) - 1) :
            /\ Unsigned(x)[p] \in {"e", "E"}
            /\ Mantissa(Take(Unsigned(x), p - 1))
            /\ IntegerLiteral(Drop(Unsigned(x), p))

\* The text x is, in its entirety, a literal of the type; every text is a
\* String.
WholeLiteral(type, x) ==
    CASE type \in {"Integer", "UnsignedInteger"} -> IntegerLiteral(x)
      [] type = "FloatingPoint" -> DecimalLiteral(x)
      [] type = "Boolean" -> x \in {<< "0" >>, << "1" >>, << "t", "r", "u", "e" >>,
                                    << "f", "a", "l", "s", "e" >>}
      [] type = "String" -> TRUE

\* The entry e names a parameter of the schema and carries a text that is not
\* a literal of the type of that parameter.
CarriesNoLiteral(schema, e) ==
    /\ e.fault = NoError
    /\ e.name \in DOMAIN schema
    /\ JsonValueText(schema[e.name].type, e.it).ok
    /\ ~WholeLiteral(schema[e.name].type, JsonValueText(schema[e.name].type, e.it).value)

\* C20: when the text of the value of an entry is not in its entirety a
\* literal of the kind of the parameter it names, the decode returns false
\* with the parse failure at that entry and the parameter keeps the value it
\* had; no other value is stored for such a text.
C20_InvalidTextIsRejected ==
    call.op \in Decoders =>
        LET es == Entries
        IN  \A i \in 1..Len(es) :
                ((\A o \in 1..(i - 1) : ~Rejected(call.pre, es[o]))
                        /\ CarriesNoLiteral(call.pre, es[i])) =>
                    /\ ~call.ret
                    /\ call.error = ErrParse
                    /\ params[es[i].name] = AppliedBefore(call.pre, es, i, es[i].name)

\* The entry in place i of the observed decode is reached: no entry before
\* it stops the decode.
Reached(es, i) == \A o \in 1..(i - 1) : ~Rejected(call.pre, es[o])

\* The entry in place i is reached and names a parameter of one of the types.
ReachedFor(es, i, types) ==
    /\ Reached(es, i)
    /\ es[i].fault = NoError
    /\ es[i].name \in DOMAIN call.pre
    /\ call.pre[es[i].name].type \in types

\* The entry in place i is taken as the value v: v is stored, and the decode
\* does not stop at the entry.
TakenAs(es, i, v) ==
    /\ params[es[i].name].value = v
    /\ FirstRejected(call.pre, es) # i

\* The entry in place i is handed to from_string as the text x, with the
\* outcome of from_string.
HandedAs(es, i, x) ==
    IF Param_from_string(call.pre[es[i].name], x).ret
    THEN TakenAs(es, i, Param_from_string(call.pre[es[i].name], x).param.value)
    ELSE /\ ~call.ret
         /\ call.error = Param_from_string(call.pre[es[i].name], x).error
         /\ params[es[i].name] = call.pre[es[i].name]

\* The decode fails at the entry in place i with the invalid-type error; the
\* parameter it names and those of the entries after it are as before.
RefusedForType(es, i) ==
    /\ ~call.ret
    /\ call.error = ErrJsonType
    /\ \A o \in i..Len(es) :
            es[o].name \in DOMAIN call.pre => params[es[o].name] = call.pre[es[o].name]

JsonNumbers == {"number_integer", "number_unsigned", "number_float"}

\* C21, as the specification states it: from_json on a Boolean parameter
\* takes a JSON boolean as it is, every JSON number as "is not zero", and
\* hands a JSON string to from_string; every other JSON type fails with the
\* invalid-type error and the parameter is as before.
C21_BooleanTakesAnyNumber ==
    call.op = "from_json" =>
        \A i \in 1..Len(Entries) :
            ReachedFor(Entries, i, {"Boolean"}) =>
                CASE Entries[i].it.t = "boolean" -> TakenAs(Entries, i, Entries[i].it.v)
                  [] Entries[i].it.t \in {"number_integer", "number_unsigned"} ->
                        TakenAs(Entries, i, Entries[i].it.v # 0)
                  [] Entries[i].it.t = "number_float" ->
                        TakenAs(Entries, i, Entries[i].it.v # DZero)
                  [] Entries[i].it.t = "string" -> HandedAs(Entries, i, Entries[i].it.v)
                  [] OTHER -> RefusedForType(Entries, i)

\* C21, amended: from_json on a Boolean parameter takes a JSON boolean as it
\* is, a JSON integer number (signed or unsigned) as "is not zero", and hands
\* a JSON string to from_string; every other JSON type, a number with a
\* fraction included, fails with the invalid-type error and the parameter is
\* as before.
C21_BooleanTakesIntegerNumbers ==
    call.op = "from_json" =>
        \A i \in 1..Len(Entries) :
            ReachedFor(Entries, i, {"Boolean"}) =>
                CASE Entries[i].it.t = "boolean" -> TakenAs(Entries, i, Entries[i].it.v)
                  [] Entries[i].it.t \in {"number_integer", "number_unsigned"} ->
                        TakenAs(Entries, i, Entries[i].it.v # 0)
                  [] Entries[i].it.t = "string" -> HandedAs(Entries, i, Entries[i].it.v)
                  [] OTHER -> RefusedForType(Entries, i)

\* A from_json that gives a number with a fraction to a Boolean parameter
\* which holds false, its default being true.
C21_Witness ==
    /\ call.op = "from_json"
    /\ \E i \in 1..Len(Entries) :
            /\ ReachedFor(Entries, i, {"Boolean"})
            /\ Entries[i].it.t = "number_float"
            /\ Entries[i].it.v # DZero
            /\ ~call.pre[Entries[i].name].value
            /\ call.pre[Entries[i].name].default_value
            /\ RefusedForType(Entries, i)

NumericTypes == {"Integer", "UnsignedInteger", "FloatingPoint"}

\* C22: from_json on an Integer, UnsignedInteger or FloatingPoint parameter
\* hands a JSON number, as its serialized text, and a JSON string, as its
\* text, to from_string; a JSON boolean, null, array or object fails with the
\* invalid-type error, the parameter keeps its value and no member after it
\* is applied.
C22_NumericTakesNumbersAndStrings ==
    call.op = "from_json" =>
        \A i \in 1..Len(Entries) :
            ReachedFor(Entries, i, NumericTypes) =>
                CASE Entries[i].it.t \in JsonNumbers -> HandedAs(Entries, i, dump(Entries[i].it))
                  [] Entries[i].it.t = "string" -> HandedAs(Entries, i, Entries[i].it.v)
                  [] OTHER -> RefusedForType(Entries, i)

\* A from_json that gives a JSON boolean to a numeric parameter whose value
\* is not its default; a member follows which its parameter would take.
C22_Witness ==
    /\ call.op = "from_json"
    /\ \E i \in 1..(Len(Entries) - 1) :
            /\ ReachedFor(Entries, i, NumericTypes)
            /\ Entries[i].it.t = "boolean"
            /\ call.pre[Entries[i].name].value # call.pre[Entries[i].name].default_value
            /\ ~Rejected(call.pre, Entries[i + 1])
            /\ Assigned(call.pre, Entries[i + 1]).param # call.pre[Entries[i + 1].name]
            /\ RefusedForType(Entries, i)

\* The text from_json makes of a value for a String parameter.
TextOf(it) == IF it.t = "string" THEN it.v ELSE dump(it)

\* C23: from_json on a String parameter never fails for the JSON type of the
\* value: a JSON string is taken as its text, a value of another JSON type as
\* its serialized text, and that text is validated as set validates it: it
\* becomes the value, or the decode fails with the error of the validation
\* and the value stays.
C23_TextTakesEveryJsonType ==
    call.op = "from_json" =>
        \A i \in 1..Len(Entries) :
            ReachedFor(Entries, i, {"String"}) =>
                IF Param_set(call.pre[Entries[i].name], TextOf(Entries[i].it)).ret
                THEN TakenAs(Entries, i, TextOf(Entries[i].it))
                ELSE /\ ~call.ret
                     /\ call.error = validate_constraints_string(
                                        call.pre[Entries[i].name].constraints,
                                        TextOf(Entries[i].it))
                     /\ call.error # ErrJsonType
                     /\ params[Entries[i].name] = call.pre[Entries[i].name]

\* A from_json that succeeded and stored the serialized text of an array in a
\* String parameter.
C23_Witness ==
    /\ call.op = "from_json"
    /\ call.ret
    /\ \E i \in 1..Len(Entries) :
            /\ ReachedFor(Entries, i, {"String"})
            /\ Entries[i].it.t = "array"
            /\ params[Entries[i].name].value = << "[", "]" >>
            /\ call.pre[Entries[i].name].value # << "[", "]" >>

\* The number of backslashes in a row that end right before place i of s.
RECURSIVE BackslashRun(_, _)
BackslashRun(s, i) ==
    IF i > 1 /\ s[i - 1] = "\\" THEN 1 + BackslashRun(s, i - 1) ELSE 0

\* Place i of s is not escaped: an even number of backslashes precedes it.
\* For i = Len(s) + 1 this says that s does not end in a dangling backslash.
Unescaped(s, i) == BackslashRun(s, i) % 2 = 0

\* The tokens of a compact text that are not empty, in order.
Tokens(s) == SelectSeq(SplitTokens(s, 1, <<>>, FALSE), LAMBDA tk : tk # <<>>)

\* The places of the unescaped '=' of a token.
EqPlaces(tk) == {i \in 1..Len(tk) : tk[i] = "=" /\ Unescaped(tk, i)}

FirstEq(tk) == CHOOSE i \in EqPlaces(tk) : \A o \in EqPlaces(tk) : i <= o

\* The text without its escaping backslashes: every character that is not
\* an unescaped backslash.
RECURSIVE UnescapedFrom(_, _)
UnescapedFrom(raw, i) ==
    IF i > Len(raw) THEN <<>>
    ELSE (IF raw[i] = "\\" /\ Unescaped(raw, i) THEN <<>> ELSE << raw[i] >>)
            \o UnescapedFrom(raw, i + 1)

\* The token in place i of the text s is whole (no dangling backslash) and
\* the decode gets to it.
TokenReached(s, i) ==
    /\ Reached(CompactEntries(s), i)
    /\ Unescaped(Tokens(s)[i], Len(Tokens(s)[i]) + 1)

\* The token tk in place i is split at its first unescaped '=': the decode
\* looks up what precedes it, and hands what follows it, unescaped, to the
\* parameter of that name.
SplitAtFirstEq(s, i, tk) ==
    LET name  == SubSeq(tk, 1, FirstEq(tk) - 1)
        value == UnescapedFrom(SubSeq(tk, FirstEq(tk) + 1, Len(tk)), 1)
        k     == FirstRejected(call.pre, CompactEntries(s))
    IN  IF name \notin DOMAIN call.pre
        THEN ~call.ret /\ call.error = ErrUnknown /\ k = i
        ELSE IF Param_from_string(call.pre[name], value).ret
        THEN /\ k # i
             /\ (\A o \in (i + 1)..(k - 1) : CompactEntries(s)[o].name # name)
                    => params[name] = Param_from_string(call.pre[name], value).param
        ELSE ~call.ret /\ k = i

\* C24: a token that is not empty and holds no unescaped '=' makes
\* from_compact_string return false with the malformed-token error; in a
\* token the name is what precedes the first unescaped '=' and the value what
\* follows it, further '=' included.  (The tokens are those the decode gets
\* to; a last token cut short by a dangling backslash is C26.)
C24_TokenSplitsAtFirstEq ==
    call.op = "from_compact_string" =>
        \A i \in 1..Len(Tokens(call.args.s)) :
            TokenReached(call.args.s, i) =>
                IF EqPlaces(Tokens(call.args.s)[i]) = {}
                THEN ~call.ret /\ call.error = ErrMissingEq
                ELSE SplitAtFirstEq(call.args.s, i, Tokens(call.args.s)[i])

\* A from_compact_string that succeeded on a token with two unescaped '=' and
\* stored a value that holds an '='.
C24_Witness ==
    /\ call.op = "from_compact_string"
    /\ call.ret
    /\ \E i \in 1..Len(Tokens(call.args.s)) :
            /\ Cardinality(EqPlaces(Tokens(call.args.s)[i])) >= 2
            /\ \E n \in DOMAIN params :
                    /\ params[n].value # call.pre[n].value
                    /\ \E o \in 1..Len(params[n].value) : params[n].value[o] = "="

\* The text s with a ';' put in after its first p characters.
InsertAt(s, p) == SubSeq(s, 1, p) \o << ";" >> \o SubSeq(s, p + 1, Len(s))

\* Where the claim puts a ';' in: at the start, at the end, and before and
\* after every unescaped ';' of s.
SeparatorPlaces(s) ==
    {0, Len(s)} \cup UNION { {q - 1, q} : q \in {q \in 1..Len(s) : s[q] = ";" /\ Unescaped(s, q)} }

\* The decode of the text x on the registry of the observed call returns
\* what the observed call returned and leaves the registry it left.
DecodesAlike(x) ==
    /\ from_compact_string(call.pre, x, Stale).ret = call.ret
    /\ from_compact_string(call.pre, x, Stale).params = params

\* C25, as the specification states it: for every compact text, a ';' put in
\* at the start, at the end or next to an unescaped ';' changes neither what
\* from_compact_string returns nor the registry it leaves; the empty text
\* decodes with success and changes nothing.
C25_ExtraSeparatorsAreNoOps ==
    call.op = "from_compact_string" =>
        /\ \A p \in SeparatorPlaces(call.args.s) : DecodesAlike(InsertAt(call.args.s, p))
        /\ call.args.s = <<>> => (call.ret /\ params = call.pre)

\* C25, amended: the same for every ';' that is put in unescaped, that is,
\* at the end only when the text does not end in a dangling backslash (the
\* ';' put after one is escaped by it and becomes part of the last value).
C25_UnescapedSeparatorsAreNoOps ==
    call.op = "from_compact_string" =>
        /\ \A p \in SeparatorPlaces(call.args.s) :
                Unescaped(InsertAt(call.args.s, p), p + 1)
                    => DecodesAlike(InsertAt(call.args.s, p))
        /\ call.args.s = <<>> => (call.ret /\ params = call.pre)

\* A from_compact_string that succeeded and changed a value on a text with
\* empty tokens at the start and at the end.
C25_Witness ==
    /\ call.op = "from_compact_string"
    /\ call.ret
    /\ params # call.pre
    /\ Len(call.args.s) >= 2
    /\ call.args.s[1] = ";"
    /\ call.args.s[Len(call.args.s)] = ";"
    /\ Unescaped(call.args.s, Len(call.args.s))

\* C26: a compact text that ends in an unescaped backslash makes
\* from_compact_string return false, with the trailing-escape error when the
\* decode gets to the last token, and the last token, the one the backslash
\* belongs to, is not applied: every parameter is as the tokens before the
\* last one leave it.
C26_DanglingBackslashIsFatal ==
    (call.op = "from_compact_string" /\ ~Unescaped(call.args.s, Len(call.args.s) + 1)) =>
        LET es == CompactEntries(call.args.s)
        IN  /\ ~call.ret
            /\ Reached(es, Len(es)) =>
                    /\ call.error = ErrTrailingBackslash
                    /\ \A n \in DOMAIN call.pre :
                            params[n] = AppliedBefore(call.pre, es, Len(es), n)
            /\ \A n \in DOMAIN call.pre :
                    params[n] = AppliedBefore(call.pre, es, FirstRejected(call.pre, es), n)

\* A from_compact_string of a text whose last token names the parameter,
\* carries a value and ends in a dangling backslash; the parameter holds a
\* value that was set and keeps it.
C26_Witness ==
    /\ call.op = "from_compact_string"
    /\ ~Unescaped(call.args.s, Len(call.args.s) + 1)
    /\ call.error = ErrTrailingBackslash
    /\ LET tks == Tokens(call.args.s)
       IN  /\ EqPlaces(tks[Len(tks)]) # {}
           /\ SubSeq(tks[Len(tks)], 1, FirstEq(tks[Len(tks)]) - 1) \in DOMAIN call.pre
           /\ Len(tks[Len(tks)]) > FirstEq(tks[Len(tks)]) + 1
    /\ \E n \in DOMAIN call.pre : call.pre[n].value # call.pre[n].default_value
    /\ params = call.pre

\* The name holds none of '=', ';' and the backslash.
PlainName(n) == \A i \in 1..Len(n) : n[i] \notin {"=", ";", "\\"}

\* C27: for a registry of Integer, Boolean and String parameters whose names
\* hold none of '=', ';' and '\' and whose values satisfy their constraints,
\* from_compact_string of to_compact_string() on a new ParamSet of the same
\* schema returns true and gives every parameter the value it has in the
\* sender.
C27_CompactRoundTripOfPlainKinds ==
    (/\ call.op = "compact_round_trip"
     /\ \A n \in DOMAIN call.pre :
            /\ call.pre[n].type \in {"Integer", "Boolean", "String"}
            /\ PlainName(n)
            /\ Satisfies(call.pre[n]))
        => /\ call.rx.ret
           /\ DOMAIN call.rx.params = DOMAIN call.pre
           /\ \A n \in DOMAIN call.pre : call.rx.params[n].value = call.pre[n].value

\* An exchange of a negative int, a false bool and a text that holds a ';'
\* and a backslash, none of them a default.
C27_Witness ==
    /\ call.op = "compact_round_trip"
    /\ call.rx.ret
    /\ \A n \in DOMAIN call.pre : PlainName(n) /\ Satisfies(call.pre[n])
    /\ \E n \in DOMAIN call.pre : call.pre[n].type = "Integer" /\ call.pre[n].value < 0
    /\ \E n \in DOMAIN call.pre : call.pre[n].type = "Boolean" /\ ~call.pre[n].value
    /\ \E n \in DOMAIN call.pre :
            /\ call.pre[n].type = "String"
            /\ \E i, o \in 1..Len(call.pre[n].value) :
                    call.pre[n].value[i] = ";" /\ call.pre[n].value[o] = "\\"

\* The names that occur in the input of the observed decode.
NamesInInput == {Entries[i].name : i \in {i \in 1..Len(Entries) : Entries[i].fault = NoError}}

\* C28: a call on one parameter leaves the others as they are.  set<V>(name,
\* v) and reset, failed or not, change at most the value of the parameter
\* they name; a from_compact_string or from_json that succeeds changes only
\* parameters whose names occur in its input, and the others keep their
\* values (they are not put back to their defaults).
C28_OtherParametersKeepTheirValues ==
    /\ call.op \in {"set", "reset"} =>
            /\ DOMAIN params = DOMAIN call.pre
            /\ \A n \in DOMAIN call.pre :
                    IF n = call.args.name
                    THEN Declaration(params[n]) = Declaration(call.pre[n])
                    ELSE params[n] = call.pre[n]
    /\ (call.op \in Decoders /\ call.ret) =>
            /\ DOMAIN params = DOMAIN call.pre
            /\ \A n \in DOMAIN call.pre \ NamesInInput : params[n] = call.pre[n]

\* A decode that succeeded and changed the parameter it names, next to a
\* parameter it does not name whose value is not its default.
C28_Witness ==
    /\ call.op \in Decoders
    /\ call.ret
    /\ \E n \in DOMAIN call.pre \ NamesInInput :
            call.pre[n].value # call.pre[n].default_value
    /\ \E n \in DOMAIN call.pre \cap NamesInInput : params[n] # call.pre[n]

\* The places before place k of the entries es that name n.
Occurrences(es, k, n) == {i \in 1..(k - 1) : es[i].fault = NoError /\ es[i].name = n}

\* The last of a set of places that is not empty.
Last(places) == CHOOSE i \in places : \A o \in places : o <= i

\* C29: from_compact_string applies the tokens from left to right.  When a
\* declared name occurs in several tokens of a text that decodes with
\* success, the parameter ends with the value of its last occurrence; when
\* the decode fails at a later occurrence of the name, the parameter holds
\* the value of the last occurrence before that one.
C29_LastOccurrenceWins ==
    call.op = "from_compact_string" =>
        LET es == CompactEntries(call.args.s)
            k  == FirstRejected(call.pre, es)
        IN  \A n \in DOMAIN call.pre :
                /\ (call.ret /\ Cardinality(Occurrences(es, Len(es) + 1, n)) >= 2) =>
                        params[n].value =
                            DecodedValue(call.pre[n].type,
                                         es[Last(Occurrences(es, Len(es) + 1, n))])
                /\ (~call.ret /\ k <= Len(es) /\ es[k].fault = NoError /\ es[k].name = n
                        /\ Occurrences(es, k, n) # {}) =>
                        params[n].value =
                            DecodedValue(call.pre[n].type, es[Last(Occurrences(es, k, n))])

\* A from_compact_string that succeeded on a text in which a name occurs
\* twice with two values; the parameter ends with the second, which is not
\* the value it had.
C29_Witness ==
    /\ call.op = "from_compact_string"
    /\ call.ret
    /\ LET es == CompactEntries(call.args.s)
       IN  \E i, o \in 1..Len(es) :
                /\ i < o
                /\ es[i].name = es[o].name
                /\ es[i].it # es[o].it
                /\ params[es[o].name].value = DecodedValue(call.pre[es[o].name].type, es[o])
                /\ params[es[o].name].value # call.pre[es[o].name].value

\* The key s comes before the key t in lexicographic order: s is a proper
\* prefix of t, or s has the lesser character where they first differ.
KeyBefore(s, t) ==
    \/ Len(s) < Len(t) /\ \A i \in 1..Len(s) : s[i] = t[i]
    \/ \E i \in 1..Len(s) :
            /\ i <= Len(t)
            /\ Code(s[i]) < Code(t[i])
            /\ \A o \in 1..(i - 1) : s[o] = t[o]

\* The member of the key in the document j, as an entry.
MemberOf(j, key) == [fault |-> NoError, name |-> key, it |-> j.v[key]]

\* The keys of the document j whose members cannot be applied.
RejectedKeys(j) == {key \in DOMAIN j.v : Rejected(call.pre, MemberOf(j, key))}

\* The first key of a set of keys that is not empty.
FirstKey(keys) == CHOOSE key \in keys : \A o \in keys \ {key} : KeyBefore(key, o)

\* C30: from_json goes through the members of the object in ascending
\* lexicographic order of the keys (the document is a map of its keys, so
\* that the order in which it was built does not show).  When it fails at a
\* key, the members with lesser keys have been applied and no member with
\* that key or a greater one; a document that is no object fails before any
\* parameter is touched.
C30_MembersInKeyOrder ==
    (call.op = "from_json" /\ ~call.ret) =>
        IF call.args.j.t # "object"
        THEN call.error = ErrNotObject /\ params = call.pre
        ELSE /\ RejectedKeys(call.args.j) # {}
             /\ \A n \in DOMAIN call.pre :
                    IF n \in DOMAIN call.args.j.v
                            /\ KeyBefore(n, FirstKey(RejectedKeys(call.args.j)))
                    THEN params[n] = Assigned(call.pre, MemberOf(call.args.j, n)).param
                    ELSE params[n] = call.pre[n]

\* A from_json that failed at a key which a member with a greater key
\* follows; the parameter of that member would have taken its value and has
\* not.
C30_Witness ==
    /\ call.op = "from_json"
    /\ ~call.ret
    /\ call.args.j.t = "object"
    /\ \E n \in DOMAIN call.args.j.v \cap DOMAIN call.pre :
            /\ KeyBefore(FirstKey(RejectedKeys(call.args.j)), n)
            /\ ~Rejected(call.pre, MemberOf(call.args.j, n))
            /\ Assigned(call.pre, MemberOf(call.args.j, n)).param # call.pre[n]
            /\ params[n] = call.pre[n]

====
